---- MODULE Spec2Model ----
(***************************************************************************)
(* A model of the text adventure's core: the random board population       *)
(* (Board::populateBoard), the combat resolver (attack), and the           *)
(* character's equipment operations (Character::pickUp and the drops).    *)
(*                                                                         *)
(* The specifications share the variables below:                           *)
(*   SpecPopulate / FairPopulate / RunPopulate : one call of populateBoard,*)
(*                                 step by step                            *)
(*   SpecAttack / SpecAttackZero : one call of attack() on drawn inputs    *)
(*   SpecEquip / SpecCarry       : calls of pickUp and of the drops        *)
(*   SpecReaction                : one call of a successfulDef function    *)
(*   Spec / SpecDayNight / SpecGame : main's command loop on the default   *)
(*                                 board, as populateBoard has filled it   *)
(*   SpecMove                    : the move cases on a board of the size   *)
(*                                 entered at startup                      *)
(***************************************************************************)
EXTENDS Integers, Sequences, FiniteSets

VARIABLES
    \* ---- Board::populateBoard ----
    width,        \* Board::width  (number of columns)
    height,       \* Board::height (number of rows)
    nEnemies,     \* enemies.size()
    nItems,       \* items.size()
    gridEnemy,    \* grid[x][y]->enemy : 0 is nullptr, k > 0 is enemies[k-1]
    gridItem,     \* grid[x][y]->item  : 0 is nullptr, k > 0 is items[k-1]
    popPc,        \* position inside populateBoard
    popI,         \* the loop index i
    popX,         \* the local x (a row)
    popY,         \* the local y (a column)
    \* ---- characters and combat ----
    player,       \* the player's Character
    enemy,        \* the other Character of a single call of attack() or
                  \* of successfulDef
    ground,       \* the items not yet handed to pickUp in the calls of
                  \* pickUp and of the drops
    gameOver,     \* main's gameOver flag
    mainPc,       \* "command": between commands; "counter": inside case 'j',
                  \* between attack(player, enemy) and attack(enemy, player)
    commandCount, \* main's commandCount
    commandLimit, \* the input ends there: commands are read while
                  \* commandCount is below it
    isNight,      \* main's isNight flag
    lastOp,       \* the last operation performed and its inputs
    playerRow,    \* main's playerRow
    playerColumn, \* main's playerColumn
    gold,         \* main's gold
    enemies       \* main's enemies vector: the Characters the squares point to

popVars == <<width, height, nEnemies, nItems, gridEnemy, gridItem, popPc, popI, popX, popY>>

charVars == <<player, enemy, ground, gameOver, mainPc, commandCount, commandLimit,
              isNight, lastOp, playerRow, playerColumn, gold, enemies>>

vars == <<width, height, nEnemies, nItems, gridEnemy, gridItem, popPc, popI, popX, popY,
          player, enemy, ground, gameOver, mainPc, commandCount, commandLimit,
          isNight, lastOp, playerRow, playerColumn, gold, enemies>>

(***************************************************************************)
(* Bounds of the model.                                                    *)
(***************************************************************************)
\* The largest board width and height drawn.
MaxDim == 2

\* The largest number of squares of a board handed to populateBoard.
MaxCells == 4

\* The largest number of enemies handed to populateBoard.
MaxEnemies == 3

\* The largest number of items handed to populateBoard.
MaxItems == 2

\* RAND_MAX of the model: rand() returns 0..RandMax.
RandMax == 2

\* The number of commands the player enters in a run of the game.
MaxOps == 5

\* The number of commands entered in a run that follows the day/night cycle.
MaxClockOps == 11

\* A low health drawn for a character handed to attack().
LowHealth == 5

\* The largest number of items a character picks up in a run of pickUp and
\* drop calls.
MaxPickups == 3

\* pickUp is called only while the inventory list holds at most MaxCarried
\* entries.
MaxCarried == 2

\* A base strength below the weight of the Sword and the Plate Armor together
\* and above the weight of each, for the character handed to pickUp.
LowStrength == 45

\* A base attack below the defence of every race, for the attacker handed to
\* Orc::successfulDef.
LowAttack == 5

\* The smallest and the largest board length and breadth entered at startup.
MinSide == 11

MaxSide == 13

\* The largest number of move commands read.
MaxMoves == 13

\* The number of enemies populateBoard has put next to the first square in
\* the games of pickups, drops and attacks.
NearEnemies == 2

\* The number of commands counted in the game played to victory.
MaxGameOps == 7

(***************************************************************************)
(* Board::populateBoard                                                    *)
(***************************************************************************)
\* The squares of a board of h rows and w columns: grid[x][y], x a row.
Cells(w, h) == (0 .. h - 1) \X (0 .. w - 1)

\* rand() % width: any column.
RandCols == 0 .. width - 1

\* A mutant of RandRows: rand() % (height - 1), the last row is never drawn.
RandRowsOffByOne == 0 .. height - 2

\* rand() % height: any row.
RandRows == 0 .. height - 1

\* A mutant of EnemyCellBusy: the enemy loop tests the item slot.
EnemyCellBusyChecksItem(x, y) == gridItem[<<x, y>>] # 0

\* The enemy loop's while condition: grid[x][y]->enemy != nullptr.
EnemyCellBusy(x, y) == gridEnemy[<<x, y>>] # 0

\* A mutant of ItemCellBusy: || written as &&.
ItemCellBusyAnd(x, y) == gridEnemy[<<x, y>>] # 0 /\ gridItem[<<x, y>>] # 0

\* A mutant of ItemCellBusy: the item loop forgets the item slot.
ItemCellBusyChecksEnemyOnly(x, y) == gridEnemy[<<x, y>>] # 0

\* The item loop's while condition: enemy != nullptr || item != nullptr.
ItemCellBusy(x, y) == gridEnemy[<<x, y>>] # 0 \/ gridItem[<<x, y>>] # 0

\* The state of the character variables while populateBoard runs.
CharIdle ==
    /\ player = "none"
    /\ enemy = "none"
    /\ ground = {}
    /\ gameOver = FALSE
    /\ mainPc = "idle"
    /\ commandCount = 0
    /\ commandLimit = 0
    /\ isNight = FALSE
    /\ lastOp = "none"
    /\ playerRow = 0
    /\ playerColumn = 0
    /\ gold = 0
    /\ enemies = <<>>

\* Board(w, h) constructed with every square empty; populateBoard(enemies, items)
\* entered with n enemies and m items. Board(w, h) and main's unchecked input
\* accept a side of 0: the grid then has no square.
InitPopulate ==
    /\ width \in 0 .. MaxDim
    /\ height \in 0 .. MaxDim
    /\ width * height <= MaxCells
    /\ nEnemies \in 0 .. MaxEnemies
    /\ nItems \in 0 .. MaxItems
    /\ gridEnemy = [c \in Cells(width, height) |-> 0]
    /\ gridItem = [c \in Cells(width, height) |-> 0]
    /\ popPc = "enemyLoop"
    /\ popI = 0
    /\ popX = 0
    /\ popY = 0
    /\ CharIdle

\* for (i < enemies.size()): the first draw of x and y for enemy i. On a
\* board with a side of 0 the draw is rand() % 0: the division by zero (or,
\* where the division yields a number, the access to a square of the empty
\* grid) kills the process before any square is tested.
EnemyDraw ==
    /\ popPc = "enemyLoop"
    /\ popI < nEnemies
    /\ IF height = 0 \/ width = 0
       THEN popPc' = "killed" /\ UNCHANGED <<popX, popY>>
       ELSE /\ \E x \in RandRows, y \in RandCols : popX' = x /\ popY' = y
            /\ popPc' = "enemyWhile"
    /\ UNCHANGED <<width, height, nEnemies, nItems, gridEnemy, gridItem, popI>>
    /\ UNCHANGED charVars

\* while (grid[x][y]->enemy != nullptr): the square is busy, the body of the
\* loop is entered.
EnemyRetry ==
    /\ popPc = "enemyWhile"
    /\ EnemyCellBusy(popX, popY)
    /\ popPc' = "enemyRedraw"
    /\ UNCHANGED <<width, height, nEnemies, nItems, gridEnemy, gridItem, popI, popX, popY>>
    /\ UNCHANGED charVars

\* The body of the enemy while loop: x and y are drawn again, the draw is
\* <<x, y>> (the same square again when rand() returns the same values), and
\* the while condition is tested next.
EnemyRetryTo(x, y) ==
    /\ popPc = "enemyRedraw"
    /\ x \in RandRows
    /\ y \in RandCols
    /\ popX' = x
    /\ popY' = y
    /\ popPc' = "enemyWhile"
    /\ UNCHANGED <<width, height, nEnemies, nItems, gridEnemy, gridItem, popI>>
    /\ UNCHANGED charVars

\* grid[x][y]->enemy = enemyPointer; i++.
EnemyPlace ==
    /\ popPc = "enemyWhile"
    /\ ~EnemyCellBusy(popX, popY)
    /\ gridEnemy' = [gridEnemy EXCEPT ![<<popX, popY>>] = popI + 1]
    /\ popI' = popI + 1
    /\ popPc' = "enemyLoop"
    /\ UNCHANGED <<width, height, nEnemies, nItems, gridItem, popX, popY>>
    /\ UNCHANGED charVars

\* The enemy loop ends; the item loop starts with i = 0.
EnemyLoopExit ==
    /\ popPc = "enemyLoop"
    /\ popI >= nEnemies
    /\ popPc' = "itemLoop"
    /\ popI' = 0
    /\ UNCHANGED <<width, height, nEnemies, nItems, gridEnemy, gridItem, popX, popY>>
    /\ UNCHANGED charVars

\* for (i < items.size()): the first draw of x and y for item i; rand() % 0
\* on a board with a side of 0 kills the process, as in the enemy loop.
ItemDraw ==
    /\ popPc = "itemLoop"
    /\ popI < nItems
    /\ IF height = 0 \/ width = 0
       THEN popPc' = "killed" /\ UNCHANGED <<popX, popY>>
       ELSE /\ \E x \in RandRows, y \in RandCols : popX' = x /\ popY' = y
            /\ popPc' = "itemWhile"
    /\ UNCHANGED <<width, height, nEnemies, nItems, gridEnemy, gridItem, popI>>
    /\ UNCHANGED charVars

\* while (enemy != nullptr || item != nullptr): the square is busy, the body
\* of the loop is entered.
ItemRetry ==
    /\ popPc = "itemWhile"
    /\ ItemCellBusy(popX, popY)
    /\ popPc' = "itemRedraw"
    /\ UNCHANGED <<width, height, nEnemies, nItems, gridEnemy, gridItem, popI, popX, popY>>
    /\ UNCHANGED charVars

\* The body of the item while loop: x and y are drawn again.
ItemRetryTo(x, y) ==
    /\ popPc = "itemRedraw"
    /\ x \in RandRows
    /\ y \in RandCols
    /\ popX' = x
    /\ popY' = y
    /\ popPc' = "itemWhile"
    /\ UNCHANGED <<width, height, nEnemies, nItems, gridEnemy, gridItem, popI>>
    /\ UNCHANGED charVars

\* grid[x][y]->item = itemPointer; i++.
ItemPlace ==
    /\ popPc = "itemWhile"
    /\ ~ItemCellBusy(popX, popY)
    /\ gridItem' = [gridItem EXCEPT ![<<popX, popY>>] = popI + 1]
    /\ popI' = popI + 1
    /\ popPc' = "itemLoop"
    /\ UNCHANGED <<width, height, nEnemies, nItems, gridEnemy, popX, popY>>
    /\ UNCHANGED charVars

\* The item loop ends: populateBoard returns.
PopulateReturn ==
    /\ popPc = "itemLoop"
    /\ popI >= nItems
    /\ popPc' = "done"
    /\ UNCHANGED <<width, height, nEnemies, nItems, gridEnemy, gridItem, popI, popX, popY>>
    /\ UNCHANGED charVars

NextPopulate ==
    \/ EnemyDraw
    \/ EnemyRetry
    \/ \E x \in 0 .. MaxDim - 1, y \in 0 .. MaxDim - 1 : EnemyRetryTo(x, y)
    \/ EnemyPlace
    \/ EnemyLoopExit
    \/ ItemDraw
    \/ ItemRetry
    \/ \E x \in 0 .. MaxDim - 1, y \in 0 .. MaxDim - 1 : ItemRetryTo(x, y)
    \/ ItemPlace
    \/ PopulateReturn

SpecPopulate == InitPopulate /\ [][NextPopulate]_vars

\* The program keeps running (every step that can be taken is taken), and the
\* random source is fair: a retry loop that redraws forever draws every cell
\* again, so it draws a free cell when there is one (strong fairness: the
\* redraw is possible each time the body of the loop is entered, not all the
\* time).
PopulateFairness ==
    /\ WF_vars(EnemyDraw)
    /\ WF_vars(EnemyRetry)
    /\ WF_vars(ItemRetry)
    /\ WF_vars(EnemyPlace)
    /\ WF_vars(EnemyLoopExit)
    /\ WF_vars(ItemDraw)
    /\ WF_vars(ItemPlace)
    /\ WF_vars(PopulateReturn)
    /\ SF_vars(\E x \in 0 .. MaxDim - 1, y \in 0 .. MaxDim - 1 :
                   EnemyRetryTo(x, y) /\ ~EnemyCellBusy(x, y))
    /\ SF_vars(\E x \in 0 .. MaxDim - 1, y \in 0 .. MaxDim - 1 :
                   ItemRetryTo(x, y) /\ ~ItemCellBusy(x, y))

FairPopulate == InitPopulate /\ [][NextPopulate]_vars /\ PopulateFairness

\* populateBoard keeps running (a step that can be taken is taken), whatever
\* rand() returns: nothing is assumed about the draws, a redraw can give the
\* same square for ever.
RunPopulate == InitPopulate /\ [][NextPopulate]_vars /\ WF_vars(NextPopulate)

(***************************************************************************)
(* Claims about populateBoard                                              *)
(***************************************************************************)
\* The squares holding enemy e / item k.
CellsOfEnemy(e) == {c \in Cells(width, height) : gridEnemy[c] = e}

CellsOfItem(k) == {c \in Cells(width, height) : gridItem[c] = k}

\* C1: after populateBoard returns, each of the N enemies stands on exactly one
\* square (so the N enemies occupy N distinct squares, none overwritten), and
\* no square holding an item also holds an enemy.
C1_EnemiesDistinctNoItemOnEnemy ==
    popPc = "done" =>
        /\ \A e \in 1 .. nEnemies : Cardinality(CellsOfEnemy(e)) = 1
        /\ \A c \in Cells(width, height) : gridItem[c] # 0 => gridEnemy[c] = 0

C1_Witness ==
    /\ popPc = "done"
    /\ nEnemies = 2
    /\ nItems >= 1
    /\ Cardinality({c \in Cells(width, height) : gridEnemy[c] # 0}) = 2

\* C2: after populateBoard returns, each of the M items lies on exactly one
\* square: every item is placed once and none is overwritten by a later item.
C2_ItemsDistinct ==
    popPc = "done" =>
        /\ \A k \in 1 .. nItems : Cardinality(CellsOfItem(k)) = 1
        /\ Cardinality({c \in Cells(width, height) : gridItem[c] # 0}) = nItems

C2_Witness ==
    /\ popPc = "done"
    /\ nItems = 2
    /\ Cardinality({c \in Cells(width, height) : gridItem[c] # 0}) = 2

\* C3: with W >= 1, H >= 1 and N + M <= W*H, populateBoard eventually returns
\* when the random draws are fair.
C3_Terminates ==
    (width >= 1 /\ height >= 1 /\ nEnemies + nItems <= width * height)
        => <>(popPc = "done")

C3_Witness ==
    /\ popPc = "done"
    /\ nEnemies + nItems = width * height
    /\ nEnemies >= 1
    /\ nItems >= 1

\* C4 as stated: with N + M > W*H populateBoard never returns, and whatever
\* the draws it ends up for ever in a retry loop on a busy square: the enemy
\* loop when N > W*H, else the item loop.
C4_NeverReturns ==
    /\ [](nEnemies + nItems > width * height => popPc # "done")
    /\ (nEnemies > width * height)
          => <>[](popPc \in {"enemyWhile", "enemyRedraw"} /\ EnemyCellBusy(popX, popY))
    /\ (nEnemies <= width * height /\ nEnemies + nItems > width * height)
          => <>[](popPc \in {"itemWhile", "itemRedraw"} /\ ItemCellBusy(popX, popY))

\* C4, amended: with N + M > W*H populateBoard never returns, whatever the
\* draws. On a board with W, H >= 1 it ends up for ever in a retry loop on a
\* busy square: the enemy loop when N > W*H, and else one of the two loops
\* (the enemy loop when the draws keep hitting the enemies placed before).
\* On a board with a side of 0 it enters no retry loop: the first draw kills
\* the process.
C4_NeverReturnsLoopsOrKilled ==
    /\ [](nEnemies + nItems > width * height => popPc # "done")
    /\ (width >= 1 /\ height >= 1 /\ nEnemies > width * height)
          => <>[](popPc \in {"enemyWhile", "enemyRedraw"} /\ EnemyCellBusy(popX, popY))
    /\ (width >= 1 /\ height >= 1 /\ nEnemies <= width * height
          /\ nEnemies + nItems > width * height)
          => \/ <>[](popPc \in {"enemyWhile", "enemyRedraw"} /\ EnemyCellBusy(popX, popY))
             \/ <>[](popPc \in {"itemWhile", "itemRedraw"} /\ ItemCellBusy(popX, popY))
    /\ ((width = 0 \/ height = 0) /\ nEnemies + nItems > 0)
          => /\ [](popPc \notin {"enemyWhile", "enemyRedraw", "itemWhile", "itemRedraw"})
             /\ <>[](popPc = "killed")

\* The enemy loop redraws on a busy square of a board that has room for every
\* enemy, but not for the items as well.
C4_Witness ==
    /\ nEnemies + nItems > width * height
    /\ nEnemies <= width * height
    /\ popPc = "enemyRedraw"
    /\ EnemyCellBusy(popX, popY)
    /\ \E c \in Cells(width, height) : gridEnemy[c] = 0

(***************************************************************************)
(* Items (items.hpp, ItemsDB.h)                                            *)
(***************************************************************************)
\* nullptr in an equipment slot.
NoItem == "none"

\* The predefined items. An item is named by its variable in ItemsDB.h; the
\* record holds its class and its fields (0 for a field the class lacks).
ItemsDB ==
    [ Sword          |-> [kind |-> "Weapon", weight |-> 10, attack_inc |-> 10,
                          defence_inc |-> 0, attack_dec |-> 0, health |-> 0, strength_inc |-> 0],
      Dagger         |-> [kind |-> "Weapon", weight |-> 5, attack_inc |-> 5,
                          defence_inc |-> 0, attack_dec |-> 0, health |-> 0, strength_inc |-> 0],
      PlateArmor     |-> [kind |-> "Armour", weight |-> 40, attack_inc |-> 0,
                          defence_inc |-> 10, attack_dec |-> 5, health |-> 0, strength_inc |-> 0],
      LeatherArmor   |-> [kind |-> "Armour", weight |-> 20, attack_inc |-> 0,
                          defence_inc |-> 5, attack_dec |-> 0, health |-> 0, strength_inc |-> 0],
      LargeShield    |-> [kind |-> "Shield", weight |-> 30, attack_inc |-> 0,
                          defence_inc |-> 10, attack_dec |-> 5, health |-> 0, strength_inc |-> 0],
      SmallShield    |-> [kind |-> "Shield", weight |-> 10, attack_inc |-> 0,
                          defence_inc |-> 5, attack_dec |-> 0, health |-> 0, strength_inc |-> 0],
      RingOfLife     |-> [kind |-> "Ring", weight |-> 1, attack_inc |-> 0,
                          defence_inc |-> 0, attack_dec |-> 0, health |-> 10, strength_inc |-> 0],
      RingOfStrength |-> [kind |-> "Ring", weight |-> 1, attack_inc |-> 0,
                          defence_inc |-> 0, attack_dec |-> 0, health |-> 0 - 10, strength_inc |-> 50] ]

\* The items main() hands to populateBoard.
BoardItems == {"Sword", "Dagger", "LeatherArmor", "PlateArmor", "RingOfLife", "RingOfStrength"}

\* dynamic_pointer_cast<Weapon>(item) succeeds.
IsWeapon(item) == ItemsDB[item].kind = "Weapon"

\* dynamic_pointer_cast<Armour>(item) succeeds: Shield derives from Armour.
IsArmour(item) == ItemsDB[item].kind \in {"Armour", "Shield"}

\* dynamic_pointer_cast<Shield>(item) succeeds.
IsShield(item) == ItemsDB[item].kind = "Shield"

\* dynamic_pointer_cast<Ring>(item) succeeds.
IsRing(item) == ItemsDB[item].kind = "Ring"

(***************************************************************************)
(* Characters                                                              *)
(***************************************************************************)
Races == {"Human", "Elf", "Dwarf", "Hobbit", "Orc"}

\* A chance is a fraction <<numerator, denominator>>.
\* The constructor arguments of each race: attack, attack chance, defence,
\* defence chance, health, strength.
RaceStats ==
    [ Human  |-> [attack |-> 30, attack_chance |-> <<2, 3>>, defence |-> 20,
                  defence_chance |-> <<1, 2>>, health |-> 60, strength |-> 100],
      Elf    |-> [attack |-> 40, attack_chance |-> <<1, 1>>, defence |-> 10,
                  defence_chance |-> <<1, 4>>, health |-> 40, strength |-> 70],
      Dwarf  |-> [attack |-> 30, attack_chance |-> <<2, 3>>, defence |-> 20,
                  defence_chance |-> <<2, 3>>, health |-> 50, strength |-> 130],
      Hobbit |-> [attack |-> 25, attack_chance |-> <<1, 3>>, defence |-> 20,
                  defence_chance |-> <<2, 3>>, health |-> 70, strength |-> 85],
      Orc    |-> [attack |-> 25, attack_chance |-> <<1, 4>>, defence |-> 10,
                  defence_chance |-> <<1, 4>>, health |-> 50, strength |-> 130] ]

\* Character::Character through the race's constructor: nothing equipped, an
\* empty inventory; isNight is the Orc's flag (false after construction) and
\* stays false for the other races.
MakeCharacter(race) ==
    [ race           |-> race,
      attack         |-> RaceStats[race].attack,
      attack_chance  |-> RaceStats[race].attack_chance,
      defence        |-> RaceStats[race].defence,
      defence_chance |-> RaceStats[race].defence_chance,
      health         |-> RaceStats[race].health,
      strength       |-> RaceStats[race].strength,
      isNight        |-> FALSE,
      weapon         |-> NoItem,
      armor          |-> NoItem,
      shield         |-> NoItem,
      ring           |-> <<>>,
      inventory      |-> <<>> ]

\* A mutant of SetTimeOfDay: the night branch forgets attack_chance.
SetTimeOfDayKeepsChance(c, night) ==
    IF night
    THEN [c EXCEPT !.isNight = TRUE, !.attack = 45,
                   !.defence = 25, !.defence_chance = <<1, 2>>]
    ELSE [c EXCEPT !.isNight = FALSE, !.attack = 25, !.attack_chance = <<1, 4>>,
                   !.defence = 10, !.defence_chance = <<1, 4>>]

\* Orc::setTimeOfDay(night).
SetTimeOfDay(c, night) ==
    IF night
    THEN [c EXCEPT !.isNight = TRUE, !.attack = 45, !.attack_chance = <<1, 1>>,
                   !.defence = 25, !.defence_chance = <<1, 2>>]
    ELSE [c EXCEPT !.isNight = FALSE, !.attack = 25, !.attack_chance = <<1, 4>>,
                   !.defence = 10, !.defence_chance = <<1, 4>>]

\* The sum of f over the rings worn, in the order of the ring vector.
RECURSIVE SumRings(_, _)
SumRings(rings, field) ==
    IF rings = <<>> THEN 0
    ELSE ItemsDB[Head(rings)][field] + SumRings(Tail(rings), field)

\* Character::getCurrentWeight.
GetCurrentWeight(c) ==
    (IF c.weapon # NoItem THEN ItemsDB[c.weapon].weight ELSE 0)
    + (IF c.armor # NoItem THEN ItemsDB[c.armor].weight ELSE 0)
    + (IF c.shield # NoItem THEN ItemsDB[c.shield].weight ELSE 0)
    + SumRings(c.ring, "weight")

\* A mutant of GetTotalAttack: the armour's attack penalty is forgotten.
GetTotalAttackNoArmourPenalty(c) ==
    c.attack
    + (IF c.weapon # NoItem THEN ItemsDB[c.weapon].attack_inc ELSE 0)
    - (IF c.shield # NoItem THEN ItemsDB[c.shield].attack_dec ELSE 0)
    + SumRings(c.ring, "strength_inc")

\* Character::getTotalAttack.
GetTotalAttack(c) ==
    c.attack
    + (IF c.weapon # NoItem THEN ItemsDB[c.weapon].attack_inc ELSE 0)
    - (IF c.armor # NoItem THEN ItemsDB[c.armor].attack_dec ELSE 0)
    - (IF c.shield # NoItem THEN ItemsDB[c.shield].attack_dec ELSE 0)
    + SumRings(c.ring, "strength_inc")

\* Character::getTotalDefence.
GetTotalDefence(c) ==
    c.defence
    + (IF c.armor # NoItem THEN ItemsDB[c.armor].defence_inc ELSE 0)
    + (IF c.shield # NoItem THEN ItemsDB[c.shield].defence_inc ELSE 0)

\* Character::getTotalStrength.
GetTotalStrength(c) == c.strength + SumRings(c.ring, "strength_inc")

\* Character::getTotalHealth.
GetTotalHealth(c) == c.health + SumRings(c.ring, "health")

(***************************************************************************)
(* Character::pickUp and the drops                                         *)
(***************************************************************************)
\* A mutant of TooHeavy: > written as >=.
TooHeavyOrEqual(c, item) == GetCurrentWeight(c) + ItemsDB[item].weight >= c.strength

\* The weight test of pickUp: getCurrentWeight() + item->weight > strength.
TooHeavy(c, item) == GetCurrentWeight(c) + ItemsDB[item].weight > c.strength

\* A mutant of PickUpChar: the weight test is left out.
PickUpCharUnchecked(c, item) ==
    IF IsWeapon(item) THEN [c EXCEPT !.weapon = item]
    ELSE IF IsArmour(item)
         THEN [c EXCEPT !.armor = item, !.inventory = Append(@, item)]
    ELSE IF IsShield(item)
         THEN [c EXCEPT !.shield = item, !.inventory = Append(@, item)]
    ELSE IF IsRing(item)
         THEN [c EXCEPT !.ring = Append(@, item), !.inventory = Append(@, item)]
    ELSE c

\* A mutant of PickUpChar: a ring's health delta is also added to health.
PickUpCharRingAddsHealth(c, item) ==
    IF TooHeavy(c, item) THEN c
    ELSE IF IsWeapon(item) THEN [c EXCEPT !.weapon = item]
    ELSE IF IsArmour(item)
         THEN [c EXCEPT !.armor = item, !.inventory = Append(@, item)]
    ELSE IF IsShield(item)
         THEN [c EXCEPT !.shield = item, !.inventory = Append(@, item)]
    ELSE IF IsRing(item)
         THEN [c EXCEPT !.ring = Append(@, item), !.inventory = Append(@, item),
                        !.health = @ + ItemsDB[item].health]
    ELSE c

\* A mutant of PickUpChar: the Weapon branch also pushes to the inventory.
PickUpCharWeaponToInventory(c, item) ==
    IF TooHeavy(c, item) THEN c
    ELSE IF IsWeapon(item)
         THEN [c EXCEPT !.weapon = item, !.inventory = Append(@, item)]
    ELSE IF IsArmour(item)
         THEN [c EXCEPT !.armor = item, !.inventory = Append(@, item)]
    ELSE IF IsShield(item)
         THEN [c EXCEPT !.shield = item, !.inventory = Append(@, item)]
    ELSE IF IsRing(item)
         THEN [c EXCEPT !.ring = Append(@, item), !.inventory = Append(@, item)]
    ELSE c

\* Character::pickUp(item): the character afterwards. The casts are tried in
\* the order Weapon, Armour, Shield, Ring.
PickUpChar(c, item) ==
    IF TooHeavy(c, item) THEN c
    ELSE IF IsWeapon(item) THEN [c EXCEPT !.weapon = item]
    ELSE IF IsArmour(item)
         THEN [c EXCEPT !.armor = item, !.inventory = Append(@, item)]
    ELSE IF IsShield(item)
         THEN [c EXCEPT !.shield = item, !.inventory = Append(@, item)]
    ELSE IF IsRing(item)
         THEN [c EXCEPT !.ring = Append(@, item), !.inventory = Append(@, item)]
    ELSE c

\* Character::pickUp(item): the value returned.
PickUpOk(c, item) ==
    /\ ~TooHeavy(c, item)
    /\ (IsWeapon(item) \/ IsArmour(item) \/ IsShield(item) \/ IsRing(item))

\* Character::dropWeapon, dropArmour, dropShield.
DropWeaponChar(c) == [c EXCEPT !.weapon = NoItem]

\* A mutant of DropArmourChar: the weapon slot is cleared too.
DropArmourCharAlsoWeapon(c) == [c EXCEPT !.armor = NoItem, !.weapon = NoItem]

DropArmourChar(c) == [c EXCEPT !.armor = NoItem]

DropShieldChar(c) == [c EXCEPT !.shield = NoItem]

\* A mutant of EraseAt: the last element is moved to the index and the vector
\* is shortened by one (swap and pop), so the order of the others changes.
EraseAtSwapLast(seq, index) ==
    [k \in 1 .. Len(seq) - 1 |-> IF k = index + 1 THEN seq[Len(seq)] ELSE seq[k]]

\* ring.erase(ring.begin() + index), index counted from 0.
EraseAt(seq, index) ==
    [k \in 1 .. Len(seq) - 1 |-> IF k <= index THEN seq[k] ELSE seq[k + 1]]

\* A mutant of DropRingChar: index < size written as index <= size.
DropRingCharOffByOne(c, index) ==
    IF index >= 0 /\ index <= Len(c.ring)
    THEN [c EXCEPT !.ring = EraseAt(@, index)]
    ELSE c

\* Character::dropRing(index).
DropRingChar(c, index) ==
    IF index >= 0 /\ index < Len(c.ring)
    THEN [c EXCEPT !.ring = EraseAt(@, index)]
    ELSE c

\* Character::dropRing(index): what it prints.
DropRingMessage(c, index) ==
    IF index >= 0 /\ index < Len(c.ring)
    THEN "Dropping ring"
    ELSE "Invalid ring choice"

\* case 'h', slot 4, the ring chosen as rnum (counted from 1): the character
\* afterwards.
DropRingSelect(c, rnum) ==
    IF c.ring = <<>> THEN c
    ELSE IF rnum < 1 \/ rnum > Len(c.ring) THEN c
    ELSE DropRingChar(c, rnum - 1)

\* case 'h', slot 4: what it prints.
DropRingSelectMessage(c, rnum) ==
    IF c.ring = <<>> THEN "No rings to drop"
    ELSE IF rnum < 1 \/ rnum > Len(c.ring) THEN "Invalid ring selection"
    ELSE DropRingMessage(c, rnum - 1)

(***************************************************************************)
(* attack(attacker, defender)                                              *)
(***************************************************************************)
\* (float)rand() / RAND_MAX: the roll is r / RandMax for r in 0..RandMax.
Rolls == 0 .. RandMax

\* The value of lastOp.defenceRoll when no defence roll was drawn.
NotDrawn == 0 - 1

\* A mutant of RollGreater: > written as >=.
RollGreaterOrEqual(r, chance) == r * chance[2] >= chance[1] * RandMax

\* roll r / RandMax > chance.
RollGreater(r, chance) == r * chance[2] > chance[1] * RandMax

\* roll r / RandMax < chance.
RollLess(r, chance) == r * chance[2] < chance[1] * RandMax

\* A mutant of AttackMisses: > written as >=.
AttackMissesOrEqual(attackRoll, attacker) ==
    attackRoll * attacker.attack_chance[2] >= attacker.attack_chance[1] * RandMax

\* A mutant of AttackMisses: the comparison inverted.
AttackMissesInverted(attackRoll, attacker) == RollLess(attackRoll, attacker.attack_chance)

\* attackRoll > attacker->attack_chance.
AttackMisses(attackRoll, attacker) == RollGreater(attackRoll, attacker.attack_chance)

\* A mutant of DefenceSucceeds: the defence never succeeds, the code falls
\* through to the damage.
DefenceNeverSucceeds(defenceRoll, defender) == FALSE

\* defenceRoll < defender->defence_chance.
DefenceSucceeds(defenceRoll, defender) == RollLess(defenceRoll, defender.defence_chance)

\* Character::successfulDef: the base class's empty body.
CharacterSuccessfulDef(attacker, defender) == defender

\* Human::successfulDef and Dwarf::successfulDef: a message only.
HumanSuccessfulDef(attacker, defender) == defender

DwarfSuccessfulDef(attacker, defender) == defender

\* Elf::successfulDef: defender->health += 1.
ElfSuccessfulDef(attacker, defender) == [defender EXCEPT !.health = @ + 1]

\* The modulus of rand() % 6 in Hobbit::successfulDef.
HobbitRolls == 6

\* Hobbit::successfulDef: defender->health -= rand() % 6, raised to 0 when
\* negative; roll is the value rand() returns.
HobbitSuccessfulDef(attacker, defender, roll) ==
    LET reduced == defender.health - (roll % HobbitRolls)
    IN  [defender EXCEPT !.health = IF reduced < 0 THEN 0 ELSE reduced]

\* A mutant of OrcSuccessfulDef: a negative difference is not raised to 0.
OrcSuccessfulDefNoClamp(self, attacker, defender) ==
    IF ~self.isNight
    THEN LET temp == attacker.attack - defender.defence
             damageTaken == temp \div 4
             reduced == defender.health - damageTaken
         IN  [defender EXCEPT !.health = IF reduced < 0 THEN 0 ELSE reduced]
    ELSE [defender EXCEPT !.health = @ + 1]

\* Orc::successfulDef, called on the Orc self: by day a quarter of the
\* difference of the base attack and the base defence is taken from the
\* defender's health, by night the defender gains 1.
OrcSuccessfulDef(self, attacker, defender) ==
    IF ~self.isNight
    THEN LET diff == attacker.attack - defender.defence
             temp == IF diff < 0 THEN 0 ELSE diff
             damageTaken == temp \div 4
             reduced == defender.health - damageTaken
         IN  [defender EXCEPT !.health = IF reduced < 0 THEN 0 ELSE reduced]
    ELSE [defender EXCEPT !.health = @ + 1]

\* defender->successfulDef(attacker, defender) as attack() calls it: defender is
\* a Character* and successfulDef is not declared virtual, so the call binds
\* to Character::successfulDef whatever the defender's race.
SuccessfulDefCall(attacker, defender) == CharacterSuccessfulDef(attacker, defender)

\* A mutant of ApplyDamage: the test totalAttack > totalDefence is left out.
ApplyDamageUnguarded(attacker, defender) ==
    LET damage == GetTotalAttack(attacker) - GetTotalDefence(defender)
        reduced == defender.health - damage
        floored == [defender EXCEPT !.health = IF reduced < 0 THEN 0 ELSE reduced]
    IN  IF floored.health > GetTotalHealth(floored)
        THEN [floored EXCEPT !.health = GetTotalHealth(floored)]
        ELSE floored

\* The damage branch of attack(): lines 59-70.
ApplyDamage(attacker, defender) ==
    IF GetTotalAttack(attacker) > GetTotalDefence(defender)
    THEN LET damage == GetTotalAttack(attacker) - GetTotalDefence(defender)
             reduced == defender.health - damage
             floored == [defender EXCEPT !.health = IF reduced < 0 THEN 0 ELSE reduced]
         IN  IF floored.health > GetTotalHealth(floored)
             THEN [floored EXCEPT !.health = GetTotalHealth(floored)]
             ELSE floored
    ELSE defender

\* attack(attacker, defender): the defender afterwards (the attacker is only
\* read), for the two rolls; the defence roll is read only after a hit.
AttackDefender(attacker, defender, attackRoll, defenceRoll) ==
    IF AttackMisses(attackRoll, attacker) THEN defender
    ELSE IF DefenceSucceeds(defenceRoll, defender)
         THEN SuccessfulDefCall(attacker, defender)
    ELSE ApplyDamage(attacker, defender)

\* The branch attack() takes: "miss", "defended", "damage" or "blocked".
AttackOutcome(attacker, defender, attackRoll, defenceRoll) ==
    IF AttackMisses(attackRoll, attacker) THEN "miss"
    ELSE IF DefenceSucceeds(defenceRoll, defender) THEN "defended"
    ELSE IF GetTotalAttack(attacker) > GetTotalDefence(defender) THEN "damage"
    ELSE "blocked"

(***************************************************************************)
(* main(): the command loop on the board populateBoard has filled, with    *)
(* the player's row and column, the enemies vector, the enemy and item     *)
(* pointers of the squares and the gold.                                   *)
(***************************************************************************)
\* int length = 12, breadth = 12.
DefaultSide == 12

\* The literal the cases 's' and 'd' compare playerRow and playerColumn with.
LastIndex == 11

\* The races of main's enemies vector, in its order.
EnemyRaces == <<"Human", "Elf", "Dwarf", "Hobbit", "Orc">>

\* main's items vector, in its order.
GameItems ==
    <<"Sword", "Dagger", "LeatherArmor", "PlateArmor", "RingOfLife", "RingOfStrength">>

\* The player starts on the first square: playerRow = 0, playerColumn = 0.
AtFirstSquare ==
    /\ playerRow = 0
    /\ playerColumn = 0

\* The state of the populateBoard variables, of the gold and of the enemies
\* vector where a function is called on its own: no board in use, no gold,
\* the vector left out.
PopIdle ==
    /\ gold = 0
    /\ enemies = <<>>
    /\ width = 0
    /\ height = 0
    /\ nEnemies = 0
    /\ nItems = 0
    /\ gridEnemy = <<>>
    /\ gridItem = <<>>
    /\ popPc = "idle"
    /\ popI = 0
    /\ popX = 0
    /\ popY = 0

\* The variables a command of the game leaves alone: the board's size, the
\* sizes of the two vectors and the locals of populateBoard, which has
\* returned, with the variables of the single calls and the end of the input.
restVars == <<width, height, nEnemies, nItems, popPc, popI, popX, popY,
              enemy, ground, commandLimit>>

\* The pointers of the squares of a board of w columns and h rows after
\* populateBoard has placed entry k of a vector on the square squares[k]:
\* 0 is nullptr.
PointersTo(squares, w, h) ==
    [c \in Cells(w, h) |->
        IF \E k \in DOMAIN squares : squares[k] = c
        THEN CHOOSE k \in DOMAIN squares : squares[k] = c
        ELSE 0]

\* board.grid[playerRow][playerColumn]->enemy: 0 is nullptr.
EnemyOnSquare == gridEnemy[<<playerRow, playerColumn>>]

\* board.grid[playerRow][playerColumn]->item: 0 is nullptr.
ItemOnSquare == gridItem[<<playerRow, playerColumn>>]

\* A mutant of NightAt: < 5 written as <= 5.
NightAtOffByOne(count) == ~(count % 10 <= 5)

\* The day/night test at the end of the loop body: commandCount % 10 < 5 is
\* day, else night.
NightAt(count) == ~(count % 10 < 5)

\* main's isNight after the day/night block: set to false in the day branch
\* when it was true, set to true in the night branch when it was false.
IsNightAfter(count) ==
    IF ~NightAt(count)
    THEN (IF isNight THEN FALSE ELSE isNight)
    ELSE (IF ~isNight THEN TRUE ELSE isNight)

\* The enemies after the day/night block: when the time of day switches,
\* every Orc a square points to gets setTimeOfDay(isNight).
DayNightEnemies(es, grid, count) ==
    [k \in DOMAIN es |->
        IF /\ NightAt(count) # isNight
           /\ es[k].race = "Orc"
           /\ \E c \in Cells(width, height) : grid[c] = k
        THEN SetTimeOfDay(es[k], NightAt(count))
        ELSE es[k]]

\* The end of the loop body after a command that left commandCount at count,
\* the enemies as es and the enemy pointers as grid.
EndOfCommand(count, es, grid) ==
    /\ commandCount' = count
    /\ isNight' = IsNightAfter(count)
    /\ enemies' = DayNightEnemies(es, grid, count)

\* A mutant of AnyEnemiesLeft: the scan stops after the first row.
AnyEnemiesLeftFirstRow(grid) ==
    \E c \in 0 .. width - 1 : grid[<<0, c>>] # 0

\* The scan of case 'j' for an enemy pointer on any square of the board.
AnyEnemiesLeft(grid) ==
    \E r \in 0 .. height - 1, c \in 0 .. width - 1 : grid[<<r, c>>] # 0

\* A mutant of GoldAfterDefeat: the reward is added twice.
GoldAfterDefeatTwice(g) == g + 20 + 20

\* gold += 20.
GoldAfterDefeat(g) == g + 20

\* main is ready to read a command.
ReadsCommand ==
    /\ mainPc = "command"
    /\ ~gameOver
    /\ commandCount < commandLimit

\* case 'w', 's', 'a', 'd': the player steps to the neighbouring square, or
\* stays where it is at the edge the case tests for.
Move(dir) ==
    /\ ReadsCommand
    /\ playerRow' = IF dir = "w" /\ playerRow > 0 THEN playerRow - 1
                     ELSE IF dir = "s" /\ playerRow < LastIndex THEN playerRow + 1
                     ELSE playerRow
    /\ playerColumn' = IF dir = "a" /\ playerColumn > 0 THEN playerColumn - 1
                        ELSE IF dir = "d" /\ playerColumn < LastIndex THEN playerColumn + 1
                        ELSE playerColumn
    /\ lastOp' = [kind |-> "move"]
    /\ EndOfCommand(commandCount + 1, enemies, gridEnemy)
    /\ UNCHANGED <<player, gameOver, mainPc, gold, gridEnemy, gridItem>>
    /\ UNCHANGED restVars

\* case 'k', 'l': look and inventory print only.
Look ==
    /\ ReadsCommand
    /\ lastOp' = [kind |-> "look"]
    /\ EndOfCommand(commandCount + 1, enemies, gridEnemy)
    /\ UNCHANGED <<player, gameOver, mainPc, gold, gridEnemy, gridItem>>
    /\ UNCHANGED <<playerRow, playerColumn>>
    /\ UNCHANGED restVars

\* case 'g': pickUp of the item on the square, and the square's item pointer
\* is set to nullptr when pickUp returns true; "No item here!" otherwise.
PickUp ==
    /\ ReadsCommand
    /\ IF ItemOnSquare # 0
       THEN LET item == GameItems[ItemOnSquare]
            IN  /\ player' = PickUpChar(player, item)
                /\ gridItem' = IF PickUpOk(player, item)
                               THEN [gridItem EXCEPT ![<<playerRow, playerColumn>>] = 0]
                               ELSE gridItem
                /\ lastOp' = [kind |-> "pickUp", item |-> item,
                               ok |-> PickUpOk(player, item)]
       ELSE /\ lastOp' = [kind |-> "pickUp", item |-> NoItem, ok |-> FALSE]
            /\ UNCHANGED <<player, gridItem>>
    /\ EndOfCommand(commandCount + 1, enemies, gridEnemy)
    /\ UNCHANGED <<gameOver, mainPc, gold, gridEnemy>>
    /\ UNCHANGED <<playerRow, playerColumn>>
    /\ UNCHANGED restVars

\* case 'h', slot 1: dropWeapon.
DropWeapon ==
    /\ ReadsCommand
    /\ player' = DropWeaponChar(player)
    /\ lastOp' = [kind |-> "dropWeapon"]
    /\ EndOfCommand(commandCount + 1, enemies, gridEnemy)
    /\ UNCHANGED <<gameOver, mainPc, gold, gridEnemy, gridItem>>
    /\ UNCHANGED <<playerRow, playerColumn>>
    /\ UNCHANGED restVars

\* case 'h', slot 2: dropArmour.
DropArmour ==
    /\ ReadsCommand
    /\ player' = DropArmourChar(player)
    /\ lastOp' = [kind |-> "dropArmour"]
    /\ EndOfCommand(commandCount + 1, enemies, gridEnemy)
    /\ UNCHANGED <<gameOver, mainPc, gold, gridEnemy, gridItem>>
    /\ UNCHANGED <<playerRow, playerColumn>>
    /\ UNCHANGED restVars

\* case 'h', slot 3: dropShield.
DropShield ==
    /\ ReadsCommand
    /\ player' = DropShieldChar(player)
    /\ lastOp' = [kind |-> "dropShield"]
    /\ EndOfCommand(commandCount + 1, enemies, gridEnemy)
    /\ UNCHANGED <<gameOver, mainPc, gold, gridEnemy, gridItem>>
    /\ UNCHANGED <<playerRow, playerColumn>>
    /\ UNCHANGED restVars

\* case 'h', slot 4: with rings worn and 1 <= rnum <= ring.size(),
\* dropRing(rnum - 1); a message otherwise.
DropRing(rnum) ==
    /\ ReadsCommand
    /\ rnum \in 0 .. Len(player.ring) + 1
    /\ player' = DropRingSelect(player, rnum)
    /\ lastOp' = [kind |-> "dropRing", rnum |-> rnum]
    /\ EndOfCommand(commandCount + 1, enemies, gridEnemy)
    /\ UNCHANGED <<gameOver, mainPc, gold, gridEnemy, gridItem>>
    /\ UNCHANGED <<playerRow, playerColumn>>
    /\ UNCHANGED restVars

\* case 'h', any other slot: "Invalid choice!".
DropInvalid ==
    /\ ReadsCommand
    /\ lastOp' = [kind |-> "dropInvalid"]
    /\ EndOfCommand(commandCount + 1, enemies, gridEnemy)
    /\ UNCHANGED <<player, gameOver, mainPc, gold, gridEnemy, gridItem>>
    /\ UNCHANGED <<playerRow, playerColumn>>
    /\ UNCHANGED restVars

\* A mutant of PlayerAttack: the test of the enemy's total health is left out,
\* the enemy stays on the square and always strikes back.
PlayerAttackNoRemoval(attackRoll, defenceRoll) ==
    /\ ReadsCommand
    /\ EnemyOnSquare # 0
    /\ enemies' = [enemies EXCEPT ![EnemyOnSquare] =
                      AttackDefender(player, enemies[EnemyOnSquare], attackRoll, defenceRoll)]
    /\ lastOp' = [kind |-> "attack", attacker |-> "player",
                   outcome |-> AttackOutcome(player, enemies[EnemyOnSquare],
                                             attackRoll, defenceRoll),
                   target |-> EnemyOnSquare, defeated |-> FALSE, won |-> FALSE]
    /\ mainPc' = "counter"
    /\ UNCHANGED <<player, gameOver, gold, gridEnemy, gridItem, commandCount, isNight>>
    /\ UNCHANGED <<playerRow, playerColumn>>
    /\ UNCHANGED restVars

\* case 'j' with an enemy on the square, first half: attack(player, enemy). An
\* enemy left with total health <= 0 is taken off its square, 20 gold is
\* received and the board is scanned: with no enemy left the game is won; the
\* command ends there, without counting (the break before commandCount++).
\* Else the enemy strikes back.
PlayerAttack(attackRoll, defenceRoll) ==
    /\ ReadsCommand
    /\ EnemyOnSquare # 0
    /\ LET k == EnemyOnSquare
           hit == AttackDefender(player, enemies[k], attackRoll, defenceRoll)
           es == [enemies EXCEPT ![k] = hit]
           grid == [gridEnemy EXCEPT ![<<playerRow, playerColumn>>] = 0]
           outcome == AttackOutcome(player, enemies[k], attackRoll, defenceRoll)
       IN  IF GetTotalHealth(hit) <= 0
           THEN /\ gridEnemy' = grid
                /\ gold' = GoldAfterDefeat(gold)
                /\ gameOver' = IF ~AnyEnemiesLeft(grid) THEN TRUE ELSE gameOver
                /\ mainPc' = "command"
                /\ lastOp' = [kind |-> "attack", attacker |-> "player",
                               outcome |-> outcome, target |-> k,
                               defeated |-> TRUE, won |-> ~AnyEnemiesLeft(grid)]
                /\ EndOfCommand(commandCount, es, grid)
           ELSE /\ enemies' = es
                /\ mainPc' = "counter"
                /\ lastOp' = [kind |-> "attack", attacker |-> "player",
                               outcome |-> outcome, target |-> k,
                               defeated |-> FALSE, won |-> FALSE]
                /\ UNCHANGED <<gridEnemy, gold, gameOver, commandCount, isNight>>
    /\ UNCHANGED <<player, gridItem, playerRow, playerColumn>>
    /\ UNCHANGED restVars

\* case 'j', second half: attack(enemy, player); the game is over when the
\* player's total health is <= 0.
EnemyAttack(attackRoll, defenceRoll) ==
    /\ mainPc = "counter"
    /\ player' = AttackDefender(enemies[EnemyOnSquare], player, attackRoll, defenceRoll)
    /\ gameOver' = (GetTotalHealth(player') <= 0)
    /\ mainPc' = "command"
    /\ lastOp' = [kind |-> "attack", attacker |-> "enemy",
                   outcome |-> AttackOutcome(enemies[EnemyOnSquare], player,
                                             attackRoll, defenceRoll),
                   target |-> EnemyOnSquare, defeated |-> FALSE, won |-> FALSE]
    /\ EndOfCommand(commandCount + 1, enemies, gridEnemy)
    /\ UNCHANGED <<gold, gridEnemy, gridItem, playerRow, playerColumn>>
    /\ UNCHANGED restVars

\* case 'j' with no enemy on the square: "No enemy to attack".
AttackNoEnemy ==
    /\ ReadsCommand
    /\ EnemyOnSquare = 0
    /\ lastOp' = [kind |-> "attack", attacker |-> "player", outcome |-> "noEnemy",
                   target |-> 0, defeated |-> FALSE, won |-> FALSE]
    /\ EndOfCommand(commandCount + 1, enemies, gridEnemy)
    /\ UNCHANGED <<player, gameOver, mainPc, gold, gridEnemy, gridItem>>
    /\ UNCHANGED <<playerRow, playerColumn>>
    /\ UNCHANGED restVars

\* case 'x': exit.
Exit ==
    /\ ReadsCommand
    /\ gameOver' = TRUE
    /\ lastOp' = [kind |-> "exit"]
    /\ EndOfCommand(commandCount, enemies, gridEnemy)
    /\ UNCHANGED <<player, mainPc, gold, gridEnemy, gridItem>>
    /\ UNCHANGED <<playerRow, playerColumn>>
    /\ UNCHANGED restVars

\* default: "Invalid command!"; the command is not counted.
Invalid ==
    /\ ReadsCommand
    /\ lastOp' = [kind |-> "invalid"]
    /\ EndOfCommand(commandCount, enemies, gridEnemy)
    /\ UNCHANGED <<player, gameOver, mainPc, gold, gridEnemy, gridItem>>
    /\ UNCHANGED <<playerRow, playerColumn>>
    /\ UNCHANGED restVars

\* The state before the first command.
NoOp == [kind |-> "none"]

\* main() up to the command loop, on a board of length w and breadth h,
\* populateBoard having placed the enemies on the squares enemySquares and
\* the items on the squares itemSquares: main's two vectors, the player of
\* the race chosen in user() on the first square, no gold, day, no command
\* counted. The variables of the single calls are not in use: the game keeps
\* its enemies in the enemies vector and its items on the squares.
GameStart(w, h, enemySquares, itemSquares, races) ==
    /\ width = w
    /\ height = h
    /\ nEnemies = Len(EnemyRaces)
    /\ nItems = Len(GameItems)
    /\ gridEnemy = PointersTo(enemySquares, w, h)
    /\ gridItem = PointersTo(itemSquares, w, h)
    /\ popPc = "done"
    /\ popI = 0
    /\ popX = 0
    /\ popY = 0
    /\ \E race \in races : player = MakeCharacter(race)
    /\ enemies = [k \in 1 .. Len(EnemyRaces) |-> MakeCharacter(EnemyRaces[k])]
    /\ gameOver = FALSE
    /\ mainPc = "command"
    /\ commandCount = 0
    /\ isNight = FALSE
    /\ lastOp = NoOp
    /\ gold = 0
    /\ AtFirstSquare
    /\ enemy = "none"
    /\ ground = {}

\* The first n squares of a row, one for each of the n entries of a vector.
FarRow(n, row) == [k \in 1 .. n |-> <<row, k - 1>>]

\* The squares of the enemies where the first n of the vector stand on the
\* squares next to the first square, along a path from it, and the others
\* in the last row.
EnemiesNear(n) ==
    LET nearSquares == <<<<0, 1>>, <<1, 1>>, <<1, 0>>, <<2, 0>>, <<2, 1>>>>
    IN  [k \in 1 .. Len(EnemyRaces) |->
            IF k <= n THEN nearSquares[k]
            ELSE FarRow(Len(EnemyRaces), DefaultSide - 1)[k]]

\* The squares of the items where item lies on the first square and the
\* others in the row before the last.
ItemsNear(item) ==
    [FarRow(Len(GameItems), DefaultSide - 2) EXCEPT ![item] = <<0, 0>>]

\* The game after populateBoard and user(), for the boards populateBoard
\* fills with an item on the first square and NearEnemies enemies next to it.
Init ==
    /\ \E item \in 1 .. Len(GameItems) :
          GameStart(DefaultSide, DefaultSide,
                    EnemiesNear(NearEnemies), ItemsNear(item), Races)
    /\ commandLimit = MaxOps

Next ==
    \/ \E dir \in {"w", "s", "a", "d"} : Move(dir)
    \/ Look
    \/ PickUp
    \/ DropWeapon
    \/ DropArmour
    \/ DropShield
    \/ \E rnum \in 0 .. Len(GameItems) + 1 : DropRing(rnum)
    \/ DropInvalid
    \/ \E attackRoll \in Rolls, defenceRoll \in Rolls : PlayerAttack(attackRoll, defenceRoll)
    \/ \E attackRoll \in Rolls, defenceRoll \in Rolls : EnemyAttack(attackRoll, defenceRoll)
    \/ AttackNoEnemy
    \/ Exit
    \/ Invalid

Spec == Init /\ [][Next]_vars

(***************************************************************************)
(* attack() as a function: one call on characters drawn from bounded sets. *)
(***************************************************************************)
\* The pickups drawn for the player before the call: a weapon or none, an
\* armour or none, a ring or none.
DrawnPickups ==
    { w \o a \o r : w \in {<<>>, <<"Sword">>},
                    a \in {<<>>, <<"PlateArmor">>},
                    r \in {<<>>, <<"RingOfLife">>, <<"RingOfStrength">>} }

\* pickUp called for each item of a sequence in turn.
RECURSIVE PickUpAll(_, _)
PickUpAll(c, items) ==
    IF items = <<>> THEN c
    ELSE PickUpAll(PickUpChar(c, Head(items)), Tail(items))

\* An attack chance of 0, which no race is constructed with.
ZeroChance == <<0, 1>>

\* A character at full or at low health.
AtDrawnHealth(c) == {[c EXCEPT !.health = h] : h \in {c.health, LowHealth}}

\* The enemies handed to attack(): a character as constructed (the Orc also
\* with its night stats), at full or at low health.
DrawnEnemies ==
    UNION { AtDrawnHealth(c) :
              c \in {MakeCharacter(race) : race \in Races}
                      \cup {SetTimeOfDay(MakeCharacter("Orc"), TRUE)} }

\* The players handed to attack(): a character as constructed, after the
\* pickups drawn, at full or at low health.
DrawnPlayers ==
    UNION { AtDrawnHealth(PickUpAll(MakeCharacter(race), items)) :
              race \in Races, items \in DrawnPickups }

\* The state of the other character variables when attack() is called.
CallIdle ==
    /\ ground = {}
    /\ gameOver = FALSE
    /\ mainPc = "call"
    /\ commandCount = 0
    /\ commandLimit = 0
    /\ isNight = FALSE
    /\ lastOp = NoOp
    /\ PopIdle
    /\ AtFirstSquare

\* The two characters handed to attack().
InitAttack ==
    /\ player \in DrawnPlayers
    /\ enemy \in DrawnEnemies
    /\ CallIdle

\* The same, the player's attack chance set to 0.
InitAttackZero ==
    /\ player \in {[p EXCEPT !.attack_chance = ZeroChance] : p \in DrawnPlayers}
    /\ enemy \in DrawnEnemies
    /\ CallIdle

\* The character named who.
CharOf(who) == IF who = "player" THEN player ELSE enemy

Other(who) == IF who = "player" THEN "enemy" ELSE "player"

\* One call attack(who, the other) with the two rolls; lastOp keeps the
\* arguments as they were before the call. The defence roll is drawn only
\* after a hit.
AttackCall(who, attackRoll, defenceRoll) ==
    /\ mainPc = "call"
    /\ lastOp = NoOp
    /\ IF who = "player"
       THEN /\ enemy' = AttackDefender(player, enemy, attackRoll, defenceRoll)
            /\ UNCHANGED player
       ELSE /\ player' = AttackDefender(enemy, player, attackRoll, defenceRoll)
            /\ UNCHANGED enemy
    /\ lastOp' = [ kind        |-> "attackCall",
                   attacker    |-> CharOf(who),
                   defender    |-> CharOf(Other(who)),
                   defenderIs  |-> Other(who),
                   attackRoll  |-> attackRoll,
                   defenceRoll |-> IF AttackMisses(attackRoll, CharOf(who))
                                   THEN NotDrawn ELSE defenceRoll ]
    /\ UNCHANGED <<ground, gameOver, mainPc, commandCount, isNight>>
    /\ UNCHANGED <<popVars, commandLimit, playerRow, playerColumn, gold, enemies>>

NextAttack ==
    \E who \in {"player", "enemy"}, attackRoll \in Rolls, defenceRoll \in Rolls :
        AttackCall(who, attackRoll, defenceRoll)

SpecAttack == InitAttack /\ [][NextAttack]_vars

SpecAttackZero == InitAttackZero /\ [][NextAttack]_vars

(***************************************************************************)
(* Claims about attack()                                                   *)
(***************************************************************************)
\* attack() has been called; lastOp holds its arguments.
Called == lastOp.kind = "attackCall"

\* The two arguments after the call.
DefenderNow == CharOf(lastOp.defenderIs)

AttackerNow == CharOf(Other(lastOp.defenderIs))

\* The attack roll was greater than the attacker's attack chance.
RolledMiss == RollGreater(lastOp.attackRoll, lastOp.attacker.attack_chance)

\* The defence roll was less than the defender's defence chance.
RolledDefence == RollLess(lastOp.defenceRoll, lastOp.defender.defence_chance)

\* totalAttack(A) - totalDefence(D) before the call.
DamageBefore == GetTotalAttack(lastOp.attacker) - GetTotalDefence(lastOp.defender)

\* C5: when the attack roll is greater than the attacker's attack chance,
\* attack() changes nothing in either character (health, base stats,
\* equipment) and draws no defence roll, so no defence reaction happens.
C5_MissChangesNothing ==
    (Called /\ RolledMiss) =>
        /\ AttackerNow = lastOp.attacker
        /\ DefenderNow = lastOp.defender
        /\ lastOp.defenceRoll = NotDrawn

\* A miss of an attack that would have hurt the defender.
C5_Witness ==
    /\ Called
    /\ RolledMiss
    /\ DamageBefore > 0
    /\ lastOp.defender.health > 0

\* C6 as stated: an attacker with attack chance 0 leaves the defender's health
\* unchanged for every attack roll >= 0, a roll of exactly 0 included.
C6_ZeroChanceAlwaysMisses ==
    (Called /\ lastOp.attacker.attack_chance = ZeroChance) =>
        DefenderNow.health = lastOp.defender.health

\* C6 amended: an attacker with attack chance 0 misses on every attack roll
\* greater than 0, leaving the defender unchanged; a roll of exactly 0 is not
\* greater than the chance, so it is a hit and the defence roll is drawn.
C6_ZeroChanceMissesAboveZero ==
    (Called /\ lastOp.attacker.attack_chance = ZeroChance) =>
        /\ lastOp.attackRoll > 0 =>
              (DefenderNow = lastOp.defender /\ lastOp.defenceRoll = NotDrawn)
        /\ lastOp.attackRoll = 0 => lastOp.defenceRoll # NotDrawn

\* An attacker with chance 0 rolled above 0 an attack that would have hurt.
C6_Witness ==
    /\ Called
    /\ lastOp.attacker.attack_chance = ZeroChance
    /\ lastOp.attackRoll > 0
    /\ DamageBefore > 0
    /\ lastOp.defender.health > 0

\* C7: when the attack hits and the defence roll is less than the defender's
\* defence chance, no combat damage is applied: the defender's health does not
\* drop, whatever the totals are; for a Human or Dwarf defender nothing changes
\* in either character.
C7_DefenceNoDamage ==
    (Called /\ ~RolledMiss /\ RolledDefence) =>
        /\ DefenderNow.health >= lastOp.defender.health
        /\ AttackerNow = lastOp.attacker
        /\ lastOp.defender.race \in {"Human", "Dwarf"} => DefenderNow = lastOp.defender

\* A successful defence of a Human or Dwarf against an attack that would hurt.
C7_Witness ==
    /\ Called
    /\ ~RolledMiss
    /\ RolledDefence
    /\ lastOp.defender.race \in {"Human", "Dwarf"}
    /\ DamageBefore > 0
    /\ lastOp.defender.health > 0

\* C8 as stated: when attack() takes the defence-success branch and the
\* defender is an Elf, the Elf's reaction runs: the defender's health is one
\* more than before.
C8_ElfDefenceHeals ==
    (Called /\ ~RolledMiss /\ RolledDefence /\ lastOp.defender.race = "Elf") =>
        DefenderNow.health = ElfSuccessfulDef(lastOp.attacker, lastOp.defender).health

\* C9 as stated: when the attack hits, the defence roll fails and
\* totalAttack(A) > totalDefence(D), the defender's health becomes
\* max(0, h - (totalAttack(A) - totalDefence(D))), whatever rings the defender
\* wears, and the attacker is unchanged.
C9_DamageFlooredAtZero ==
    (Called /\ ~RolledMiss /\ ~RolledDefence /\ DamageBefore > 0) =>
        /\ DefenderNow.health =
              IF lastOp.defender.health - DamageBefore < 0 THEN 0
              ELSE lastOp.defender.health - DamageBefore
        /\ AttackerNow = lastOp.attacker

(***************************************************************************)
(* Claims about the game's sequences of pickups, drops and attacks         *)
(***************************************************************************)
\* C10 as stated: in every state reached by pickups, drops and attacks the
\* current health of every character is >= 0, whatever rings are worn.
C10_HealthNeverNegative ==
    /\ player.health >= 0
    /\ \A k \in DOMAIN enemies : enemies[k].health >= 0

(***************************************************************************)
(* pickUp and the drops as functions: calls on a character as constructed, *)
(* with every predefined item at hand.                                     *)
(***************************************************************************)
\* The predefined items of ItemsDB.h.
AllItems == DOMAIN ItemsDB

\* The state of the other character variables during the calls.
EquipIdle ==
    /\ enemy = "none"
    /\ gameOver = FALSE
    /\ mainPc = "equip"
    /\ commandCount = 0
    /\ commandLimit = 0
    /\ isNight = FALSE
    /\ lastOp = NoOp
    /\ PopIdle
    /\ AtFirstSquare

\* A character of any race as constructed; no item picked up yet.
InitEquip ==
    /\ \E race \in Races : player = MakeCharacter(race)
    /\ ground = AllItems
    /\ EquipIdle

\* The items pickUp has returned true for; ground holds the others.
PickedUp == AllItems \ ground

\* One call player->pickUp(item) with an item not picked up before, outside
\* the command loop (no command is counted): the character changes as pickUp
\* changes it, and the item leaves ground when pickUp returns true. lastOp
\* keeps the character before the call.
PickUpCall(item) ==
    /\ mainPc = "equip"
    /\ Cardinality(PickedUp) < MaxPickups
    /\ Len(player.inventory) <= MaxCarried
    /\ item \in ground
    /\ player' = PickUpChar(player, item)
    /\ ground' = IF PickUpOk(player, item) THEN ground \ {item} ELSE ground
    /\ lastOp' = [kind |-> "pickUp", item |-> item, before |-> player,
                   ok |-> PickUpOk(player, item)]
    /\ UNCHANGED <<enemy, gameOver, mainPc, commandCount, isNight>>
    /\ UNCHANGED <<popVars, commandLimit, playerRow, playerColumn, gold, enemies>>

\* The items in the slots and in the ring vector.
Equipped(c) ==
    ({c.weapon, c.armor, c.shield} \ {NoItem}) \cup {c.ring[k] : k \in 1 .. Len(c.ring)}

\* pickUp(item) called again with an item it has accepted before, whether the
\* item was dropped since or is still worn: pickUp has no test for an item
\* already held (the statics of ItemsDB.h keep every item alive), so the same
\* ring can be in the ring vector several times.
PickUpAgainCall(item) ==
    /\ mainPc = "equip"
    /\ Len(player.inventory) <= MaxCarried
    /\ item \in PickedUp
    /\ player' = PickUpChar(player, item)
    /\ lastOp' = [kind |-> "pickUpAgain", item |-> item, before |-> player,
                   ok |-> PickUpOk(player, item)]
    /\ UNCHANGED <<enemy, ground, gameOver, mainPc, commandCount, isNight>>
    /\ UNCHANGED <<popVars, commandLimit, playerRow, playerColumn, gold, enemies>>

\* dropWeapon().
DropWeaponCall ==
    /\ mainPc = "equip"
    /\ player' = DropWeaponChar(player)
    /\ lastOp' = [kind |-> "dropWeapon", before |-> player]
    /\ UNCHANGED <<enemy, ground, gameOver, mainPc, commandCount, isNight>>
    /\ UNCHANGED <<popVars, commandLimit, playerRow, playerColumn, gold, enemies>>

\* dropArmour().
DropArmourCall ==
    /\ mainPc = "equip"
    /\ player' = DropArmourChar(player)
    /\ lastOp' = [kind |-> "dropArmour", before |-> player]
    /\ UNCHANGED <<enemy, ground, gameOver, mainPc, commandCount, isNight>>
    /\ UNCHANGED <<popVars, commandLimit, playerRow, playerColumn, gold, enemies>>

\* dropShield().
DropShieldCall ==
    /\ mainPc = "equip"
    /\ player' = DropShieldChar(player)
    /\ lastOp' = [kind |-> "dropShield", before |-> player]
    /\ UNCHANGED <<enemy, ground, gameOver, mainPc, commandCount, isNight>>
    /\ UNCHANGED <<popVars, commandLimit, playerRow, playerColumn, gold, enemies>>

\* dropRing(index), for an index below, inside and above the ring vector.
DropRingCall(index) ==
    /\ mainPc = "equip"
    /\ index \in (0 - 1) .. Len(player.ring)
    /\ player' = DropRingChar(player, index)
    /\ lastOp' = [kind |-> "dropRing", index |-> index, before |-> player,
                   message |-> DropRingMessage(player, index)]
    /\ UNCHANGED <<enemy, ground, gameOver, mainPc, commandCount, isNight>>
    /\ UNCHANGED <<popVars, commandLimit, playerRow, playerColumn, gold, enemies>>

\* case 'h', slot 4, with rnum read from the player; index is the argument
\* dropRing gets when it is called.
DropRingSelectCall(rnum) ==
    /\ mainPc = "equip"
    /\ rnum \in 0 .. Len(player.ring) + 1
    /\ player' = DropRingSelect(player, rnum)
    /\ lastOp' = [kind |-> "dropRingSelect", index |-> rnum - 1, before |-> player,
                   message |-> DropRingSelectMessage(player, rnum)]
    /\ UNCHANGED <<enemy, ground, gameOver, mainPc, commandCount, isNight>>
    /\ UNCHANGED <<popVars, commandLimit, playerRow, playerColumn, gold, enemies>>

NextEquip ==
    \/ \E item \in AllItems : PickUpCall(item)
    \/ \E item \in AllItems : PickUpAgainCall(item)
    \/ DropWeaponCall
    \/ DropArmourCall
    \/ DropShieldCall
    \/ \E index \in (0 - 1) .. MaxPickups + 1 : DropRingCall(index)
    \/ \E rnum \in 0 .. MaxPickups + 1 : DropRingSelectCall(rnum)

SpecEquip == InitEquip /\ [][NextEquip]_vars

(***************************************************************************)
(* Claims about health, the totals, pickUp and the drops                   *)
(***************************************************************************)
\* C11 as stated: in every state reached by pickups, drops and attacks the
\* current health of a character does not exceed its total health (health
\* plus the health deltas of the rings worn).
C11_HealthWithinTotal ==
    /\ player.health <= GetTotalHealth(player)
    /\ \A k \in DOMAIN enemies : enemies[k].health <= GetTotalHealth(enemies[k])

\* The field of the item in a slot; 0 for an empty slot.
SlotField(item, field) == IF item = NoItem THEN 0 ELSE ItemsDB[item][field]

\* The sum of a field over the rings worn.
RingSum(c, field) ==
    LET sum[k \in 0 .. Len(c.ring)] ==
            IF k = 0 THEN 0 ELSE sum[k - 1] + ItemsDB[c.ring[k]][field]
    IN  sum[Len(c.ring)]

\* The weight of everything equipped.
EquippedWeight(c) ==
    SlotField(c.weapon, "weight") + SlotField(c.armor, "weight")
    + SlotField(c.shield, "weight") + RingSum(c, "weight")

\* The last call was a drop.
Dropped == lastOp.kind \in {"dropWeapon", "dropArmour", "dropShield", "dropRing", "dropRingSelect"}

\* C12: after any sequence of pickUp and drop calls the four totals equal the
\* formulas over the items now in the slots: attack = base + weapon bonus -
\* armour penalty - shield penalty + ring strength bonuses; defence = base +
\* armour bonus + shield bonus; strength = base + ring strength bonuses;
\* health = health + ring health deltas; an empty slot counts 0.
C12_TotalsMatchEquipment ==
    /\ GetTotalAttack(player) =
          player.attack + SlotField(player.weapon, "attack_inc")
          - SlotField(player.armor, "attack_dec") - SlotField(player.shield, "attack_dec")
          + RingSum(player, "strength_inc")
    /\ GetTotalDefence(player) =
          player.defence + SlotField(player.armor, "defence_inc")
          + SlotField(player.shield, "defence_inc")
    /\ GetTotalStrength(player) = player.strength + RingSum(player, "strength_inc")
    /\ GetTotalHealth(player) = player.health + RingSum(player, "health")

\* After pickups and a drop: a weapon, an armour with an attack penalty and a
\* ring of strength are equipped.
C12_Witness ==
    /\ Dropped
    /\ player.weapon # NoItem
    /\ SlotField(player.armor, "attack_dec") > 0
    /\ RingSum(player, "strength_inc") > 0

\* The last call was pickUp.
PickedUpCall == lastOp.kind = "pickUp"

\* C13: pickUp(item) is rejected exactly when the weight of everything
\* equipped (the slot the item would replace included) plus the item's weight
\* is greater than the base strength, equality being accepted; a rejected
\* pickUp returns false, leaves the character as it was and leaves the item
\* on the square.
C13_RejectedWhenTooHeavy ==
    PickedUpCall =>
        /\ lastOp.ok =
              ~(EquippedWeight(lastOp.before) + ItemsDB[lastOp.item].weight
                    > lastOp.before.strength)
        /\ ~lastOp.ok => (player = lastOp.before /\ lastOp.item \in ground)

\* A rejected pickUp of an armour while an armour is worn.
C13_Witness ==
    /\ PickedUpCall
    /\ ~lastOp.ok
    /\ ItemsDB[lastOp.item].kind = "Armour"
    /\ lastOp.before.armor # NoItem

\* C14 as stated: a pickUp is accepted whenever the equipped weight plus the
\* item's weight does not exceed the total strength (base strength plus the
\* strength bonuses of the rings worn).
C14_CapacityIsTotalStrength ==
    (PickedUpCall /\ EquippedWeight(lastOp.before) + ItemsDB[lastOp.item].weight
                        <= GetTotalStrength(lastOp.before))
        => lastOp.ok

\* C15 as stated: an accepted pickUp changes only the position of the item's
\* kind: a Weapon the weapon slot, an Armour the armour slot, a Shield the
\* shield slot, a Ring is appended to the rings; the other slots and the
\* rings are as before.
C15_PickUpChangesOwnSlot ==
    (PickedUpCall /\ lastOp.ok) =>
        LET b == lastOp.before
            kind == ItemsDB[lastOp.item].kind
        IN  /\ player.weapon = IF kind = "Weapon" THEN lastOp.item ELSE b.weapon
            /\ player.armor = IF kind = "Armour" THEN lastOp.item ELSE b.armor
            /\ player.shield = IF kind = "Shield" THEN lastOp.item ELSE b.shield
            /\ player.ring = IF kind = "Ring" THEN Append(b.ring, lastOp.item) ELSE b.ring

\* C16: an accepted pickUp of a Weapon leaves the inventory as it was; an
\* accepted pickUp of an Armour, a Shield or a Ring appends that one item.
C16_InventoryAfterPickUp ==
    (PickedUpCall /\ lastOp.ok) =>
        player.inventory =
            IF ItemsDB[lastOp.item].kind = "Weapon"
            THEN lastOp.before.inventory
            ELSE Append(lastOp.before.inventory, lastOp.item)

\* An accepted pickUp of a Weapon by a character whose inventory is not empty.
C16_Witness ==
    /\ PickedUpCall
    /\ lastOp.ok
    /\ ItemsDB[lastOp.item].kind = "Weapon"
    /\ lastOp.before.inventory # <<>>

\* The last call was dropRing, directly or from the drop command.
RingDropCall == lastOp.kind \in {"dropRing", "dropRingSelect"}

\* The index handed to dropRing was outside 0 .. ring.size() - 1.
IndexOutOfRange == lastOp.index < 0 \/ lastOp.index >= Len(lastOp.before.ring)

\* C17: a ring drop with an index outside 0..ringCount-1 (any index when no
\* ring is worn; a selection outside 1..ringCount in the drop command) leaves
\* the rings and the rest of the character as they were and reports failure.
C17_BadRingIndexChangesNothing ==
    (RingDropCall /\ IndexOutOfRange) =>
        /\ player = lastOp.before
        /\ lastOp.message \in {"Invalid ring choice", "No rings to drop",
                                "Invalid ring selection"}

\* dropRing called with index = ring.size() on a character wearing rings.
C17_Witness ==
    /\ lastOp.kind = "dropRing"
    /\ lastOp.before.ring # <<>>
    /\ lastOp.index = Len(lastOp.before.ring)

(***************************************************************************)
(* main's command loop over a full day/night cycle: a Human or Orc player  *)
(* who moves, looks, attacks and exits, and the Orc among the enemies.     *)
(***************************************************************************)
\* The game after populateBoard and user(), for the board populateBoard
\* fills with the Orc, the last of the enemies vector, right of the first
\* square, the other enemies in the last row and the items in the row before
\* it; the player is a Human or an Orc.
InitDayNight ==
    /\ GameStart(DefaultSide, DefaultSide,
                 [FarRow(Len(EnemyRaces), DefaultSide - 1) EXCEPT
                     ![Len(EnemyRaces)] = <<0, 1>>],
                 FarRow(Len(GameItems), DefaultSide - 2), {"Human", "Orc"})
    /\ commandLimit = MaxClockOps

NextDayNight ==
    \/ \E dir \in {"w", "s", "a", "d"} : Move(dir)
    \/ Look
    \/ \E attackRoll \in Rolls, defenceRoll \in Rolls : PlayerAttack(attackRoll, defenceRoll)
    \/ \E attackRoll \in Rolls, defenceRoll \in Rolls : EnemyAttack(attackRoll, defenceRoll)
    \/ AttackNoEnemy
    \/ Exit

SpecDayNight == InitDayNight /\ [][NextDayNight]_vars

(***************************************************************************)
(* Claims about the day/night cycle and the defeat of the player           *)
(***************************************************************************)
\* An iteration of the command loop has ended (or none has begun).
BetweenCommands == mainPc = "command"

\* C18: the game starts in day, and after every iteration of the command
\* loop isNight holds exactly when commandCount mod 10 >= 5.
C18_NightFollowsCommandCount ==
    BetweenCommands =>
        /\ isNight = (commandCount % 10 >= 5)
        /\ commandCount = 0 => ~isNight

\* The counter has entered its third block of 5 after a night: day again.
C18_Witness ==
    /\ BetweenCommands
    /\ commandCount = 10
    /\ ~isNight

\* The enemies the squares of the board point to.
EnemiesOnBoard ==
    {enemies[gridEnemy[c]] : c \in {d \in Cells(width, height) : gridEnemy[d] # 0}}

\* (attack, attack chance, defence, defence chance) of a character.
StatQuadruple(c) == <<c.attack, c.attack_chance, c.defence, c.defence_chance>>

\* C19: after every iteration of the command loop an Orc in an enemy slot of
\* the board has (attack, attack chance, defence, defence chance) equal to
\* (25, 0.25, 10, 0.25) by day and (45, 1.0, 25, 0.5) by night, and its
\* isNight flag equals the game's.
C19_OrcStatsFollowTimeOfDay ==
    BetweenCommands =>
        \A e \in EnemiesOnBoard :
            e.race = "Orc" =>
                /\ StatQuadruple(e) =
                      IF isNight THEN <<45, <<1, 1>>, 25, <<1, 2>>>>
                      ELSE <<25, <<1, 4>>, 10, <<1, 4>>>>
                /\ e.isNight = isNight

\* A wounded Orc on the board during the night.
C19_Witness ==
    /\ BetweenCommands
    /\ isNight
    /\ \E e \in EnemiesOnBoard :
          /\ e.race = "Orc"
          /\ e.health < RaceStats["Orc"].health

\* C20 as stated: whenever the enemy's attack leaves the player's current
\* health at 0, the game is over in that same command, whatever rings the
\* player wears.
C20_DefeatedAtZeroHealth ==
    (BetweenCommands /\ lastOp.kind = "attack" /\ lastOp.attacker = "enemy"
        /\ player.health = 0)
        => gameOver

(***************************************************************************)
(* Claims about the totals over sequences, the drops and the inventory     *)
(***************************************************************************)
\* How many times item is in the ring vector.
RingCount(c, item) == Cardinality({k \in 1 .. Len(c.ring) : c.ring[k] = item})

\* The sum of a field over the multiset of the rings worn.
RECURSIVE RingBagSum(_, _, _)
RingBagSum(c, items, field) ==
    IF items = {} THEN 0
    ELSE LET item == CHOOSE i \in items : TRUE
         IN  RingCount(c, item) * ItemsDB[item][field]
             + RingBagSum(c, items \ {item}, field)

\* The four totals of a character.
Totals(c) ==
    <<GetTotalAttack(c), GetTotalDefence(c), GetTotalStrength(c), GetTotalHealth(c)>>

\* The four totals are those of the race's base stats and of the weapon,
\* armour, shield and multiset of rings now equipped.
TotalsFromEquipment ==
    LET base == MakeCharacter(player.race)
    IN  /\ GetTotalAttack(player) =
              base.attack + SlotField(player.weapon, "attack_inc")
              - SlotField(player.armor, "attack_dec")
              - SlotField(player.shield, "attack_dec")
              + RingBagSum(player, AllItems, "strength_inc")
        /\ GetTotalDefence(player) =
              base.defence + SlotField(player.armor, "defence_inc")
              + SlotField(player.shield, "defence_inc")
        /\ GetTotalStrength(player) =
              base.strength + RingBagSum(player, AllItems, "strength_inc")
        /\ GetTotalHealth(player) =
              base.health + RingBagSum(player, AllItems, "health")

\* The item the last call dropped; NoItem when it dropped nothing.
DroppedItem ==
    IF lastOp.kind = "dropWeapon" THEN lastOp.before.weapon
    ELSE IF lastOp.kind = "dropArmour" THEN lastOp.before.armor
    ELSE IF lastOp.kind = "dropShield" THEN lastOp.before.shield
    ELSE IF RingDropCall /\ ~IndexOutOfRange THEN lastOp.before.ring[lastOp.index + 1]
    ELSE NoItem

\* pickUp of the item just dropped succeeds and gives the totals back.
RestoredByPickUp ==
    (Dropped /\ DroppedItem # NoItem
        /\ lastOp'.kind = "pickUpAgain" /\ lastOp'.item = DroppedItem)
        => (lastOp'.ok /\ Totals(player') = Totals(lastOp.before))

\* C21: the four totals depend only on the base stats of the race and on the
\* weapon, armour, shield and multiset of rings now equipped, whatever
\* sequence of pickUp and drop calls led there; dropping an equipped item and
\* picking the same item up again restores all four totals.
C21_TotalsDependOnEquipmentOnly ==
    []TotalsFromEquipment /\ [][RestoredByPickUp]_vars

\* A ring dropped and picked up again, now behind the other ring.
C21_Witness ==
    /\ lastOp.kind = "pickUpAgain"
    /\ lastOp.ok
    /\ ItemsDB[lastOp.item].kind = "Ring"
    /\ Len(player.ring) = 2
    /\ player.ring[1] # player.ring[2]
    /\ player.inventory[1] = lastOp.item

\* C28: dropRing(i) with 0 <= i < ringCount removes exactly the ring at
\* position i: one ring fewer, the others in their order, and the weapon,
\* armour and shield slots and health as before.
C28_DropRingRemovesThatRing ==
    (RingDropCall /\ ~IndexOutOfRange) =>
        LET b == lastOp.before
            i == lastOp.index
        IN  /\ Len(player.ring) = Len(b.ring) - 1
            /\ player.ring = SubSeq(b.ring, 1, i) \o SubSeq(b.ring, i + 2, Len(b.ring))
            /\ player.weapon = b.weapon
            /\ player.armor = b.armor
            /\ player.shield = b.shield
            /\ player.health = b.health

\* The first of three rings dropped; the two that remain are different rings
\* and keep their order.
C28_Witness ==
    /\ RingDropCall
    /\ ~IndexOutOfRange
    /\ lastOp.index = 0
    /\ Len(lastOp.before.ring) = 3
    /\ lastOp.before.ring[2] # lastOp.before.ring[3]
    /\ player.ring = <<lastOp.before.ring[2], lastOp.before.ring[3]>>

\* C29: dropWeapon, dropArmour and dropShield each clear only their own slot:
\* the other slots, the rings, the base stats and health are as before, the
\* dropped item is not back on the board, and a drop from an empty slot
\* changes nothing.
C29_DropClearsOwnSlotOnly ==
    LET b == lastOp.before
    IN  /\ lastOp.kind = "dropWeapon" =>
              /\ player = [b EXCEPT !.weapon = NoItem]
              /\ b.weapon \notin ground
              /\ b.weapon = NoItem => player = b
        /\ lastOp.kind = "dropArmour" =>
              /\ player = [b EXCEPT !.armor = NoItem]
              /\ b.armor \notin ground
              /\ b.armor = NoItem => player = b
        /\ lastOp.kind = "dropShield" =>
              /\ player = [b EXCEPT !.shield = NoItem]
              /\ b.shield \notin ground
              /\ b.shield = NoItem => player = b

\* An armour dropped by a character that also holds a weapon and a ring.
C29_Witness ==
    /\ lastOp.kind = "dropArmour"
    /\ lastOp.before.armor # NoItem
    /\ player.weapon # NoItem
    /\ player.ring # <<>>

\* C30 as stated: in every state reached by pickUp and drop calls the items
\* of the inventory list are exactly the items equipped.
C30_InventoryIsEquipment ==
    {player.inventory[k] : k \in 1 .. Len(player.inventory)} = Equipped(player)

(***************************************************************************)
(* Claims about the blocked attack                                         *)
(***************************************************************************)
\* C23: when the attack hits, the defence roll fails and the attacker's total
\* attack is not greater than the defender's total defence, the attack is
\* blocked: every field of the attacker and of the defender is as before.
C23_BlockedChangesNothing ==
    (Called /\ ~RolledMiss /\ ~RolledDefence /\ DamageBefore <= 0) =>
        /\ DefenderNow = lastOp.defender
        /\ AttackerNow = lastOp.attacker

\* A hit, not defended, by an attacker weaker than the defender's defence.
C23_Witness ==
    /\ Called
    /\ ~RolledMiss
    /\ ~RolledDefence
    /\ DamageBefore < 0
    /\ lastOp.defender.health > 0

(***************************************************************************)
(* The successfulDef functions called on their own: the character in enemy *)
(* defends against the attacker in player, and the function called is that *)
(* of the defender's race.                                                 *)
(***************************************************************************)
\* The attackers handed to successfulDef: the players of attack(), the Orc
\* with its night stats, and a Character constructed with a low attack.
ReactionAttackers ==
    DrawnPlayers
      \cup {SetTimeOfDay(MakeCharacter("Orc"), TRUE)}
      \cup {[MakeCharacter("Human") EXCEPT !.attack = LowAttack]}

\* The Orcs that defend: by day or by night, after the pickups drawn, at full
\* or at low health.
ReactionDefenders ==
    UNION { AtDrawnHealth(SetTimeOfDay(PickUpAll(MakeCharacter("Orc"), items), night)) :
              items \in DrawnPickups, night \in BOOLEAN }

\* The defenders of the other races: as constructed, or at a health from 0 to
\* the low health.
OtherDefenders ==
    UNION { { [MakeCharacter(race) EXCEPT !.health = h] :
                h \in {MakeCharacter(race).health} \cup (0 .. LowHealth) } :
            race \in Races \ {"Orc"} }

InitReaction ==
    /\ player \in ReactionAttackers
    /\ enemy \in ReactionDefenders \cup OtherDefenders
    /\ ground = {}
    /\ gameOver = FALSE
    /\ mainPc = "react"
    /\ commandCount = 0
    /\ commandLimit = 0
    /\ isNight = FALSE
    /\ lastOp = NoOp
    /\ PopIdle
    /\ AtFirstSquare

\* Each action below is one call of a successfulDef function on the defender
\* in enemy; lastOp keeps the arguments as they were before the call.
\* enemy->Orc::successfulDef(player, enemy).
ReactionCall ==
    /\ mainPc = "react"
    /\ lastOp = NoOp
    /\ enemy.race = "Orc"
    /\ enemy' = OrcSuccessfulDef(enemy, player, enemy)
    /\ lastOp' = [kind |-> "reaction", attacker |-> player, defender |-> enemy]
    /\ UNCHANGED <<player, ground, gameOver, mainPc, commandCount, isNight>>
    /\ UNCHANGED <<popVars, commandLimit, playerRow, playerColumn, gold, enemies>>

\* enemy->Human::successfulDef(player, enemy).
HumanReactionCall ==
    /\ mainPc = "react"
    /\ lastOp = NoOp
    /\ enemy.race = "Human"
    /\ enemy' = HumanSuccessfulDef(player, enemy)
    /\ lastOp' = [kind |-> "humanReaction", attacker |-> player, defender |-> enemy]
    /\ UNCHANGED <<player, ground, gameOver, mainPc, commandCount, isNight>>
    /\ UNCHANGED <<popVars, commandLimit, playerRow, playerColumn, gold, enemies>>

\* enemy->Elf::successfulDef(player, enemy).
ElfReactionCall ==
    /\ mainPc = "react"
    /\ lastOp = NoOp
    /\ enemy.race = "Elf"
    /\ enemy' = ElfSuccessfulDef(player, enemy)
    /\ lastOp' = [kind |-> "elfReaction", attacker |-> player, defender |-> enemy]
    /\ UNCHANGED <<player, ground, gameOver, mainPc, commandCount, isNight>>
    /\ UNCHANGED <<popVars, commandLimit, playerRow, playerColumn, gold, enemies>>

\* enemy->Dwarf::successfulDef(player, enemy).
DwarfReactionCall ==
    /\ mainPc = "react"
    /\ lastOp = NoOp
    /\ enemy.race = "Dwarf"
    /\ enemy' = DwarfSuccessfulDef(player, enemy)
    /\ lastOp' = [kind |-> "dwarfReaction", attacker |-> player, defender |-> enemy]
    /\ UNCHANGED <<player, ground, gameOver, mainPc, commandCount, isNight>>
    /\ UNCHANGED <<popVars, commandLimit, playerRow, playerColumn, gold, enemies>>

\* enemy->Hobbit::successfulDef(player, enemy), rand() returning roll.
HobbitReactionCall(roll) ==
    /\ mainPc = "react"
    /\ lastOp = NoOp
    /\ enemy.race = "Hobbit"
    /\ enemy' = HobbitSuccessfulDef(player, enemy, roll)
    /\ lastOp' = [kind |-> "hobbitReaction", attacker |-> player, defender |-> enemy]
    /\ UNCHANGED <<player, ground, gameOver, mainPc, commandCount, isNight>>
    /\ UNCHANGED <<popVars, commandLimit, playerRow, playerColumn, gold, enemies>>

NextReaction ==
    \/ ReactionCall
    \/ HumanReactionCall
    \/ ElfReactionCall
    \/ DwarfReactionCall
    \/ \E roll \in 0 .. HobbitRolls : HobbitReactionCall(roll)

SpecReaction == InitReaction /\ [][NextReaction]_vars

\* Orc::successfulDef has been called; lastOp holds its arguments.
Reacted == lastOp.kind = "reaction"

\* max(0, base attack of the attacker - base defence of the defender) / 4.
QuarterDamage ==
    LET diff == lastOp.attacker.attack - lastOp.defender.defence
    IN  IF diff > 0 THEN diff \div 4 ELSE 0

\* C22: the Orc defence reaction, when invoked, depends on the Orc's time of
\* day: by day the defender's health drops by
\* floor(max(0, attacker base attack - defender base defence) / 4) and not
\* below 0 (no damage when the attack is below the defence); by night it grows
\* by exactly 1; nothing else changes and the equipment does not enter.
C22_OrcReaction ==
    Reacted =>
        /\ player = lastOp.attacker
        /\ enemy = [lastOp.defender EXCEPT !.health = enemy.health]
        /\ ~lastOp.defender.isNight =>
              enemy.health = IF lastOp.defender.health < QuarterDamage THEN 0
                             ELSE lastOp.defender.health - QuarterDamage
        /\ lastOp.defender.isNight => enemy.health = lastOp.defender.health + 1

\* By day, an attacker whose base attack is below the Orc's base defence.
C22_Witness ==
    /\ Reacted
    /\ ~lastOp.defender.isNight
    /\ lastOp.attacker.attack < lastOp.defender.defence
    /\ lastOp.defender.armor # NoItem
    /\ enemy.health > 0

(***************************************************************************)
(* Claims about the commands of main()                                     *)
(***************************************************************************)
\* C24 as stated: every move, pickup, attack, drop, look and inventory
\* command increases commandCount by exactly one when it ends, whether or not
\* the action succeeded.
C24_EveryCommandCounts ==
    [][(mainPc' = "command" /\ lastOp'.kind \notin {"exit", "invalid"})
          => commandCount' = commandCount + 1]_vars

\* C25 as stated: after every command every Orc in play, an enemy or the
\* player's own character, has the day stats while isNight is false and the
\* night stats while it is true.
C25_EveryOrcFollowsTimeOfDay ==
    BetweenCommands =>
        \A c \in {o \in {player} \cup EnemiesOnBoard : o.race = "Orc"} :
            StatQuadruple(c) =
                IF isNight THEN <<45, <<1, 1>>, 25, <<1, 2>>>>
                ELSE <<25, <<1, 4>>, 10, <<1, 4>>>>

\* Between the two halves of case 'j' the player has attacked and the enemy
\* on the player's square is alive; after the enemy's attack the command is
\* over; between commands every enemy on the board is alive.
AttackOrder ==
    /\ mainPc = "counter" =>
          /\ lastOp.kind = "attack"
          /\ lastOp.attacker = "player"
          /\ EnemyOnSquare # 0
          /\ GetTotalHealth(enemies[EnemyOnSquare]) > 0
    /\ (lastOp.kind = "attack" /\ lastOp.attacker = "enemy") => mainPc = "command"
    /\ BetweenCommands => \A e \in EnemiesOnBoard : GetTotalHealth(e) > 0

\* The enemy attacks only from the second half of case 'j', and a player's
\* attack that leaves the enemy's total health <= 0 ends the command with
\* the enemy off the square.
CounterAttackStep ==
    /\ (lastOp'.kind = "attack" /\ lastOp'.attacker = "enemy" /\ lastOp' # lastOp)
          => (mainPc = "counter" /\ GetTotalHealth(enemies[EnemyOnSquare]) > 0)
    /\ (mainPc = "command" /\ EnemyOnSquare # 0
            /\ GetTotalHealth(enemies'[EnemyOnSquare]) <= 0)
          => (mainPc' = "command" /\ gridEnemy'[<<playerRow, playerColumn>>] = 0)
    /\ (mainPc = "command" /\ mainPc' = "counter")
          => GetTotalHealth(enemies'[EnemyOnSquare]) > 0
    /\ mainPc = "counter" =>
          /\ mainPc' = "command"
          /\ enemies'[EnemyOnSquare].health = enemies[EnemyOnSquare].health

\* C27: in an attack command the player attacks first; an enemy whose total
\* health is then <= 0 is taken off the board in the same command and never
\* strikes back, otherwise it strikes back exactly once; after any command no
\* enemy with total health <= 0 stands on the board.
C27_AttackThenRemoveOrCounter ==
    []AttackOrder /\ [][CounterAttackStep]_vars

\* The player's attack has defeated the enemy, which is off the square.
C27_Witness ==
    /\ lastOp.kind = "attack"
    /\ lastOp.attacker = "player"
    /\ lastOp.outcome = "damage"
    /\ lastOp.defeated
    /\ GetTotalHealth(enemies[lastOp.target]) <= 0
    /\ EnemyOnSquare = 0
    /\ mainPc = "command"

(***************************************************************************)
(* main(): the board of the size entered at startup and the four move      *)
(* cases, on the player's row and column.                                  *)
(***************************************************************************)
\* The lengths and breadths entered.
Sides == MinSide .. MaxSide

\* Board board(length, breadth) with populateBoard done, user() done, the
\* player on the first square and an Orc among the enemies on the board.
InitMove ==
    /\ \E w \in Sides, h \in Sides :
          GameStart(w, h, FarRow(Len(EnemyRaces), h - 1),
                    FarRow(Len(GameItems), h - 2), Races)
    /\ commandLimit = MaxMoves

\* grid[row][column] is not a square of the board.
OffBoard(row, column) == row >= height \/ column >= width

\* board.grid[row][column] read or written: off the board the vector is
\* indexed out of range, which is undefined: the program crashes or goes on.
AfterAccess(row, column) ==
    IF OffBoard(row, column) THEN {"command", "crashed"} ELSE {"command"}

\* A move case: when its test allows, the coordinates become row, column and
\* the new square is read; else the edge message. The iteration begins and
\* ends with an access to the player's square.
MoveCase(dir, allowed, row, column) ==
    /\ ReadsCommand
    /\ IF allowed
       THEN playerRow' = row /\ playerColumn' = column
       ELSE UNCHANGED <<playerRow, playerColumn>>
    /\ lastOp' = [kind |-> "step", dir |-> dir, row |-> playerRow,
                   column |-> playerColumn, refused |-> ~allowed]
    /\ \E pc \in AfterAccess(playerRow, playerColumn)
                    \cup AfterAccess(playerRow', playerColumn') :
          /\ mainPc' = pc
          /\ IF pc = "crashed"
             THEN UNCHANGED <<commandCount, isNight, enemies>>
             ELSE EndOfCommand(commandCount + 1, enemies, gridEnemy)
    /\ UNCHANGED <<player, gameOver, gold, gridEnemy, gridItem>>
    /\ UNCHANGED restVars

\* case 'w': if (playerRow > 0) playerRow--.
MoveUp == MoveCase("w", playerRow > 0, playerRow - 1, playerColumn)

\* case 's': if (playerRow < 11) playerRow++.
MoveDown == MoveCase("s", playerRow < LastIndex, playerRow + 1, playerColumn)

\* case 'a': if (playerColumn > 0) playerColumn--.
MoveLeft == MoveCase("a", playerColumn > 0, playerRow, playerColumn - 1)

\* case 'd': if (playerColumn < 11) playerColumn++.
MoveRight == MoveCase("d", playerColumn < LastIndex, playerRow, playerColumn + 1)

NextMove ==
    \/ MoveUp
    \/ MoveDown
    \/ MoveLeft
    \/ MoveRight

SpecMove == InitMove /\ [][NextMove]_vars

\* The player stood on the edge of the board the move dir leads to.
OnEdge(dir, row, column) ==
    \/ dir = "w" /\ row = 0
    \/ dir = "s" /\ row = height - 1
    \/ dir = "a" /\ column = 0
    \/ dir = "d" /\ column = width - 1

\* C26 as stated: for every board size entered, after any sequence of move
\* commands 0 <= playerRow < height and 0 <= playerColumn < width, and a move
\* is refused, leaving the position as it was, exactly when the player stood
\* on the corresponding edge of the board.
C26_PositionStaysOnBoard ==
    /\ 0 <= playerRow /\ playerRow < height
    /\ 0 <= playerColumn /\ playerColumn < width
    /\ lastOp.kind = "step" =>
          (lastOp.refused <=> OnEdge(lastOp.dir, lastOp.row, lastOp.column))

(***************************************************************************)
(* Claims about the attack chance 1.0                                      *)
(***************************************************************************)
\* The attack chance 1.0 of the Elf and of the Orc by night.
FullChance == <<1, 1>>

\* C31: an attacker whose attack chance is 1.0 (an Elf, an Orc with its night
\* stats) never misses: for every value of the attack roll, the largest
\* included, attack() goes on to draw the defence roll.
C31_FullChanceNeverMisses ==
    (Called /\ lastOp.attacker.attack_chance = FullChance) =>
        /\ ~RolledMiss
        /\ lastOp.defenceRoll # NotDrawn
        /\ lastOp.attacker.race \in {"Elf", "Orc"}

\* An Orc with its night stats attacks with the largest roll, RAND_MAX.
C31_Witness ==
    /\ Called
    /\ lastOp.attacker.race = "Orc"
    /\ lastOp.attacker.isNight
    /\ lastOp.attacker.attack_chance = FullChance
    /\ lastOp.attackRoll = RandMax
    /\ lastOp.defenceRoll # NotDrawn

(***************************************************************************)
(* Claims about the weight carried                                         *)
(***************************************************************************)
\* A character as constructed for every race, and a Human whose public field
\* strength was set to LowStrength before the first pickUp: with the items of
\* ItemsDB.h a weapon, an armour and a few rings weigh less than the strength
\* of every race, the weight test decides only for a weaker character.
InitCarry ==
    /\ player \in {MakeCharacter(race) : race \in Races}
                  \cup {[MakeCharacter("Human") EXCEPT !.strength = LowStrength]}
    /\ ground = AllItems
    /\ EquipIdle

\* The calls that change what the character wears: pickUp and the four drops.
NextCarry ==
    \/ \E item \in AllItems : PickUpCall(item)
    \/ \E item \in AllItems : PickUpAgainCall(item)
    \/ DropWeaponCall
    \/ DropArmourCall
    \/ DropShieldCall
    \/ \E index \in (0 - 1) .. MaxPickups + 1 : DropRingCall(index)

SpecCarry == InitCarry /\ [][NextCarry]_vars

\* C33: in every state reached by pickUp and drop calls from a character with
\* nothing equipped, the weight of the weapon, armour, shield and rings
\* equipped is at most the character's base strength.
C33_WeightWithinStrength ==
    EquippedWeight(player) <= player.strength

\* A character that holds a weapon was refused an armour that fills an empty
\* slot and would have taken the weight of what it wears above its strength.
C33_Witness ==
    /\ PickedUpCall
    /\ ~lastOp.ok
    /\ IsArmour(lastOp.item)
    /\ player.weapon # NoItem
    /\ player.armor = NoItem
    /\ EquippedWeight(player) <= player.strength
    /\ EquippedWeight(player) + ItemsDB[lastOp.item].weight > player.strength

(***************************************************************************)
(* main(): the game on a board where the player can reach every enemy.     *)
(***************************************************************************)
\* The game after populateBoard and user(), for the board populateBoard
\* fills with the last item of the vector on the first square and all the
\* enemies on the squares next to it.
InitGame ==
    /\ GameStart(DefaultSide, DefaultSide,
                 EnemiesNear(Len(EnemyRaces)), ItemsNear(Len(GameItems)), Races)
    /\ commandLimit = MaxGameOps

NextGame ==
    \/ \E dir \in {"w", "s", "a", "d"} : Move(dir)
    \/ PickUp
    \/ \E attackRoll \in Rolls, defenceRoll \in Rolls : PlayerAttack(attackRoll, defenceRoll)
    \/ \E attackRoll \in Rolls, defenceRoll \in Rolls : EnemyAttack(attackRoll, defenceRoll)
    \/ AttackNoEnemy

SpecGame == InitGame /\ [][NextGame]_vars

(***************************************************************************)
(* Claims about victory and gold                                           *)
(***************************************************************************)
\* The number of squares of the board whose enemy pointer is set.
EnemiesOn(grid) == Cardinality({c \in Cells(width, height) : grid[c] # 0})

\* The game has been won: the last command was the attack that printed the
\* victory message.
Won == lastOp.kind = "attack" /\ lastOp.won

\* The last command was an attack that took the enemy off its square.
Defeated == lastOp.kind = "attack" /\ lastOp.defeated

\* C32: the game ends with victory exactly when an attack removes the last
\* enemy: when the game is won it is over and no square holds an enemy, while
\* an enemy stands on the board the game is not won, and an attack that
\* removes the last enemy wins the game.
C32_VictoryAtLastEnemy ==
    /\ Won => (gameOver /\ Defeated /\ EnemiesOn(gridEnemy) = 0)
    /\ EnemiesOn(gridEnemy) > 0 => ~Won
    /\ (Defeated /\ EnemiesOn(gridEnemy) = 0) => (Won /\ gameOver)
    /\ (Defeated /\ EnemiesOn(gridEnemy) > 0) => ~gameOver

\* The player has defeated every enemy and is alive.
C32_Witness ==
    /\ Won
    /\ gameOver
    /\ EnemiesOn(gridEnemy) = 0
    /\ \A k \in DOMAIN enemies : GetTotalHealth(enemies[k]) <= 0
    /\ GetTotalHealth(player) > 0

\* The number of enemies taken off the board since populateBoard.
EnemiesRemoved == nEnemies - EnemiesOn(gridEnemy)

\* Gold does not go down and the enemies on the board do not become more.
GoldAndEnemiesStep ==
    /\ gold' >= gold
    /\ gridEnemy' # gridEnemy => EnemiesOn(gridEnemy') < EnemiesOn(gridEnemy)

\* C34: after every command gold is 20 times the number of enemies taken off
\* the board since populateBoard; the number of enemies on the board never
\* grows and gold never goes down.
C34_GoldCountsDefeats ==
    [](BetweenCommands => gold = 20 * EnemiesRemoved) /\ [][GoldAndEnemiesStep]_vars

\* One enemy defeated, the other still on the board, the player moved on.
C34_Witness ==
    /\ BetweenCommands
    /\ lastOp.kind = "move"
    /\ gold = 20
    /\ EnemiesRemoved = 1
    /\ EnemiesOn(gridEnemy) = nEnemies - 1

====
